---- MODULE Spec2Model ----
(***************************************************************************)
(* Citation compiler of aonanj/citation-verifier: compile_citations and    *)
(* the helpers and verification providers it drives.                       *)
(*                                                                         *)
(* A document is modelled by what the two scanners see in it: the items    *)
(* the citation tokenizer (eyecite) turns into citation objects and the    *)
(* items the secondary-source regular expressions match, in document       *)
(* order, each with the region of the document it lies in.                 *)
(***************************************************************************)
EXTENDS Integers, Sequences, FiniteSets, TLC

(* ---------------------------------------------------------------------- *)
(* Bounds                                                                  *)
(* ---------------------------------------------------------------------- *)
MaxTokens == 2

(* ---------------------------------------------------------------------- *)
(* Documents                                                               *)
(* ---------------------------------------------------------------------- *)
\* What an item of the document is.  "secfull" is matched by the secondary
\* patterns only; "id" is an Id. that both the tokenizer and the Id. short
\* form pattern of the secondary detector match; the others are full
\* citations of the tokenizer.
Kinds == {"case", "fed", "state1", "state2", "journal", "id", "secfull"}

\* Case citations in more detail: "case" is Brown v. Board, 347 U.S. 483
\* (1954) and "short" its short form Brown, 347 U.S. at 495; "case2" is
\* Brown v. Allen, 344 U.S. 443 (1953); "casep" is Doe v. Roe, 123 F.3d 1997
\* (page 1997, no year) and "casey" is a citation of Doe v. Roe, 123 F.3d
\* with year 1997 whose page group is empty (a page left blank), the case
\* for which _bind_full_citation falls back to "".
CaseKinds == {"case", "case2", "short", "casep", "casey"}

\* Party names with the letter v: "casev" is Davis v. Roe, 125 F.3d 10 (1998)
\* and "shortv" its short form Davis, 125 F.3d at 12.
NameKinds == {"case", "short", "casev", "shortv"}

FullCaseKinds == {"case", "case2", "casep", "casey", "casev"}

\* Where an item lies: "doc" when no string citation is detected in the
\* document; otherwise in the first or second segment of the detected string
\* citation, or "out", behind the string citation span.
Regions == {"doc", "seg0", "seg1", "out"}

RegionRank(r) == CASE r = "doc" -> 0 [] r = "seg0" -> 1 [] r = "seg1" -> 2 [] OTHER -> 3

Items == [kind : Kinds, region : Regions]

CaseDocItems == [kind : CaseKinds, region : Regions]

NameDocItems == [kind : NameKinds, region : Regions]

WellFormedDoc(d) ==
    /\ \/ \A i \in DOMAIN d : d[i].region = "doc"
       \/ \A i \in DOMAIN d : d[i].region # "doc"
    /\ \A i, j \in DOMAIN d : i < j => RegionRank(d[i].region) <= RegionRank(d[j].region)

Docs == { d \in UNION { [1..n -> Items] : n \in 0..MaxTokens } : WellFormedDoc(d) }

CaseDocs == { d \in UNION { [1..n -> CaseDocItems] : n \in 0..MaxTokens } : WellFormedDoc(d) }

NameDocs == { d \in UNION { [1..n -> NameDocItems] : n \in 0..MaxTokens } : WellFormedDoc(d) }

VARIABLES doc, has_string, pc, all_segments, seg_i, all_resolutions,
          all_segment_metadata, adjusted_spans, bucket_i, citation_db,
          state_tasks, secondary, raised,
          text, string_citation_spans, string_group_counter,
          response, validation,
          attempt, requests, query_i, last_client_error,
          payment_status, user_credits, handlers

\* The variables of one Semantic Scholar search and of the payment handlers.
scholar_vars == <<attempt, requests, query_i, last_client_error>>

payment_vars == <<payment_status, user_credits, handlers>>

NoScholar == attempt = 0 /\ requests = 0 /\ query_i = 0 /\ last_client_error = "None"

NoPayments == payment_status = "None" /\ user_credits = 0 /\ handlers = <<>>

\* The variables of the provider calls that are modelled on their own.
other_vars == <<response, validation, scholar_vars, payment_vars>>

NoOtherVars == response = "None" /\ validation = "None" /\ NoScholar /\ NoPayments

vars == <<doc, has_string, pc, all_segments, seg_i, all_resolutions,
          all_segment_metadata, adjusted_spans, bucket_i, citation_db,
          state_tasks, secondary, raised,
          text, string_citation_spans, string_group_counter, other_vars>>

(* ---------------------------------------------------------------------- *)
(* Citation objects                                                        *)
(* ---------------------------------------------------------------------- *)
\* A citation object is named by the index of its item in the document.
IsToken(t) == doc[t].kind # "secfull"

_ctype(t) ==
    CASE doc[t].kind \in FullCaseKinds -> "FullCaseCitation"
      [] doc[t].kind \in {"short", "shortv"} -> "ShortCaseCitation"
      [] doc[t].kind \in {"fed", "state1", "state2"} -> "FullLawCitation"
      [] doc[t].kind = "journal" -> "FullJournalCitation"
      [] OTHER -> "IdCitation"

IsFullCitation(t) == _ctype(t) \in {"FullCaseCitation", "FullLawCitation", "FullJournalCitation"}

_citation_category(t) ==
    IF IsFullCitation(t) THEN "full"
    ELSE IF _ctype(t) = "ShortCaseCitation" THEN "short"
    ELSE IF _ctype(t) = "IdCitation" THEN "id"
    ELSE _ctype(t)

_get_citation_type(t) ==
    CASE _ctype(t) \in {"FullCaseCitation", "ShortCaseCitation"} -> "case"
      [] _ctype(t) = "FullLawCitation" -> "law"
      [] _ctype(t) = "FullJournalCitation" -> "journal"
      [] OTHER -> "unknown"

classify_full_law_jurisdiction(t) ==
    CASE doc[t].kind = "fed" -> "federal"
      [] doc[t].kind \in {"state1", "state2"} -> "state"
      [] OTHER -> "unknown"

\* Absolute position of an item in the document text.
ItemSpan(t) == <<10 * t, 10 * t + 5>>

\* The items of one region, in document order.
RegionItems(r) == SelectSeq([i \in DOMAIN doc |-> i], LAMBDA i : doc[i].region = r)

\* Start offset of the segment that is cut out of region r.
SegmentStart(r) == IF RegionItems(r) = <<>> THEN 0 ELSE 10 * Head(RegionItems(r)) - 3

\* The text handed to one get_citations call: a segment, or the whole document.
CallStart(t) == IF doc[t].region = "doc" THEN 0 ELSE SegmentStart(doc[t].region)

\* span of the citation object inside the text it was tokenized from.
get_span(t) == <<ItemSpan(t)[1] - CallStart(t), ItemSpan(t)[2] - CallStart(t)>>

\* index of the citation object among the words of the text it was tokenized
\* from; it restarts with every get_citations call.
_get_index(t) == Cardinality({ i \in DOMAIN doc : i < t /\ doc[i].region = doc[t].region /\ IsToken(i) })

(* ---------------------------------------------------------------------- *)
(* Resource binding                                                        *)
(* ---------------------------------------------------------------------- *)
ResourceKey(kind, id_tuple) == [tag |-> "ResourceKey", kind |-> kind, id_tuple |-> id_tuple]

_bind_full_citation(t) ==
    CASE doc[t].kind = "case" -> ResourceKey("case", <<"Brown v. Board", "U.S.", "347", "483", "1954">>)
      [] doc[t].kind = "case2" -> ResourceKey("case", <<"Brown v. Allen", "U.S.", "344", "443", "1953">>)
      [] doc[t].kind = "casep" -> ResourceKey("case", <<"Doe v. Roe", "F.3d", "123", "1997", "">>)
      [] doc[t].kind = "casey" -> ResourceKey("case", <<"Doe v. Roe", "F.3d", "123", "", "1997">>)
      [] doc[t].kind = "casev" -> ResourceKey("case", <<"Davis v. Roe", "F.3d", "125", "10", "1998">>)
      [] doc[t].kind = "fed" -> ResourceKey("law", <<"42", "U.S.C.", "1983", "">>)
      [] doc[t].kind = "state1" -> ResourceKey("law", <<"", "Cal. Penal Code", "187", "">>)
      [] doc[t].kind = "state2" -> ResourceKey("law", <<"", "Tex. Penal Code", "19.02", "">>)
      [] OTHER -> ResourceKey("journal", <<"", "", "75", "Rev.", "617", "2010">>)

RawNames == <<"raw:0", "raw:1", "raw:2", "raw:3", "raw:4", "raw:5">>

\* the str key f"raw:{idx}" of the fallback dict
RawResource(n) == [tag |-> "str", kind |-> "str", id_tuple |-> <<RawNames[n + 1]>>]

\* The "::"-joined string is modelled by the sequence of its parts.
_resource_identifier(resource) ==
    IF resource.tag = "ResourceKey"
    THEN <<resource.kind>> \o SelectSeq(resource.id_tuple, LAMBDA p : p # "")
    ELSE resource.id_tuple

(* ---------------------------------------------------------------------- *)
(* Verification providers                                                  *)
(* ---------------------------------------------------------------------- *)
\* What a provider hands back: a (status, substatus, details) tuple, or an
\* exception that leaves the provider (exc names it).
Result(status, substatus, details) ==
    [status |-> status, substatus |-> substatus, details |-> details, exc |-> "None"]

Raise(exc) == [status |-> "None", substatus |-> "None", details |-> "None", exc |-> exc]

\* CourtListener citation-lookup outcomes, one of each sort: a transport
\* failure, an HTTP error status, an empty result list, and a found record
\* whose name and year agree or whose name differs.
CaseResponses == {"HTTPError", "500", "no_results", "match", "name_mismatch"}

_lookup_case_citation(resp) ==
    CASE resp = "HTTPError" -> <<"error", "lookup_failed">>
      [] resp = "401" -> <<"error", "lookup_auth_failed">>
      [] resp = "403" -> <<"error", "lookup_forbidden">>
      [] resp = "400" -> <<"error", "lookup_bad_request">>
      [] resp = "500" -> <<"error", "lookup_service_error">>
      [] resp = "302" -> <<"error", "lookup_unexpected_status">>
      [] resp = "non_json" -> <<"error", "lookup_invalid_payload">>
      [] resp = "unrecognized_payload" -> <<"error", "lookup_unrecognized_payload">>
      [] resp = "no_results" -> <<"no match", "None">>
      [] OTHER -> <<"ok", "None">>

verify_case_citation(resp) ==
    LET lookup == _lookup_case_citation(resp) IN
    IF lookup[1] # "ok"
    THEN IF lookup[1] = "no match"
         THEN Result("no match", "None", "None")
         ELSE Result(lookup[1], lookup[2], "None")
    ELSE CASE resp = "name_mismatch" -> Result("warning", "Mismatch at case_name", "details")
           [] resp = "year_mismatch" -> Result("warning", "Mismatch at year", "details")
           [] resp = "name_year_mismatch" -> Result("warning", "Mismatch at  (1) case name, (2) year", "details")
           [] OTHER -> Result("verified", "None", "None")

\* GovInfo link-service outcomes, one of each sort: a transport failure, the
\* status 400, a status without a branch of its own, a 200 whose content is
\* no PDF, a 200 with a PDF.
FederalResponses == {"HTTPError", "400", "302", "not_pdf", "pdf"}

verify_federal_law_citation(resp) ==
    CASE resp = "build_error" -> Result("error", "unsupported_reporter", "details")
      [] resp = "HTTPError" -> Result("error", "lookup_failed", "details")
      [] resp = "Exception" -> Result("error", "lookup_error", "details")
      [] resp = "400" -> Result("no_match", "no_federal_law", "details")
      [] resp = "401" -> Result("error", "lookup_auth_failed", "details")
      [] resp = "403" -> Result("error", "lookup_forbidden", "details")
      [] resp = "429" -> Result("error", "lookup_rate_limited", "details")
      [] resp = "500" -> Result("error", "lookup_service_error", "details")
      [] resp = "302" -> Result("no match", "None", "details")
      [] resp = "not_pdf" -> Result("no match", "None", "details")
      [] OTHER -> Result("verified", "None", "None")

\* The research assistant's answer: the call fails, the text is no JSON, or
\* a JSON verdict whose "status" member is any text, or null.
VerdictTexts == {"verified", "pending", "partially verified", "null"}

\* api_key is what os.getenv(OPENAI_API_KEY, "") reads: "" when no credentials
\* are configured. Without credentials the client cannot be made or its call
\* is refused; no answer comes back.
StateResponses ==
    {[class |-> c, status |-> "null", api_key |-> ""] : c \in {"no_client", "api_exception"}}
      \cup {[class |-> c, status |-> "null", api_key |-> "sk"] :
                c \in {"raises", "api_exception", "bad_json"}}
      \cup {[class |-> "verdict", status |-> v, api_key |-> "sk"] : v \in VerdictTexts}

verify_state_law_citation(resp) ==
    CASE resp.class = "raises" -> Raise("Exception")
      [] resp.class = "no_client" -> Result("error", "openai_client_init_failed", "None")
      [] resp.class = "api_exception" -> Result("error", "state_law_search_failed", "None")
      [] resp.class = "bad_json" -> Result("error", "state_law_search_failed", "None")
      [] OTHER -> Result(IF resp.status = "null" THEN "error" ELSE resp.status,
                         "closest_match", "None")

\* Bibliographic lookups of the journal provider: whether author/title could
\* be mined for the citation, what the OpenAlex stage answers, and what the
\* Semantic Scholar search finally answers.
ScholarResponses == {"match", "empty", "4xx", "5xx", "HTTPError", "bad_json"}

JournalResponses ==
    [mined : BOOLEAN, openalex : {"verified", "no_match", "error"}, scholar : ScholarResponses]

_verify_journal_citation_with_openalex(resp) ==
    CASE resp.openalex = "verified" -> Result("verified", "None", "details")
      [] resp.openalex = "error" -> Result("error", "openalex http error", "None")
      [] OTHER -> Result("no_match", "Not found in OpenAlex", "None")

_verify_author_title_with_openalex(resp) ==
    IF ~resp.mined
    THEN _verify_journal_citation_with_openalex(resp)
    ELSE CASE resp.openalex = "verified" -> Result("verified", "None", "details")
           [] resp.openalex = "error" -> Result("error", "openalex http error", "None")
           [] OTHER -> Result("no_match", "Not found in OpenAlex", "details")

_verify_citation_with_semantic_scholar(resp) ==
    CASE resp.scholar = "HTTPError" -> Raise("httpx.HTTPError")
      [] resp.scholar = "bad_json" -> Raise("JSONDecodeError")
      [] resp.scholar = "5xx" -> Raise("httpx.HTTPStatusError")
      [] resp.scholar = "4xx" -> Result("error", "semantic scholar query rejected", "None")
      [] resp.scholar = "match" -> Result("warning", "Unverified details", "details")
      [] OTHER -> Result("no_match", "not found in Semantic Scholar", "None")

_verify_title_with_semantic_scholar(resp) ==
    IF ~resp.mined
    THEN _verify_citation_with_semantic_scholar(resp)
    ELSE CASE resp.scholar = "HTTPError" -> Result("error", "semantic scholar http error", "None")
           [] resp.scholar = "bad_json" -> Result("error", "semantic scholar json error", "None")
           [] resp.scholar = "5xx" -> Result("error", "semantic scholar http error", "None")
           [] resp.scholar = "4xx" -> Result("error", "semantic scholar query rejected", "None")
           [] resp.scholar = "match" -> Result("verified", "None", "details")
           [] OTHER -> Result("no_match", "Not found in Semantic Scholar", "None")

verify_journal_citation(resp) ==
    LET first == _verify_author_title_with_openalex(resp) IN
    IF first.status = "verified"
    THEN first
    ELSE LET second == _verify_title_with_semantic_scholar(resp) IN
         IF second.exc # "None" \/ second.status \in {"verified", "warning"}
         THEN second
         ELSE Result("no_match", "Not found in OpenAlex or Semantic Scholar", "None")

\* Library of Congress search, by the confidence of the best matching record.
LocResponses == {"high", "medium", "no_record", "search_errors"}

verify_secondary_citation(resp) ==
    CASE resp = "no_queries" -> Result("error", "insufficient_citation_data", "details")
      [] resp = "search_errors" -> Result("error", "loc_search_failed", "details")
      [] resp = "no_record" -> Result("no_match", "Not found in Library of Congress", "details")
      [] resp = "high" -> Result("verified", "None", "details")
      [] resp = "medium" -> Result("warning", "Unverified details", "details")
      [] OTHER -> Result("no_match", "insufficient_confidence", "details")

(* ---------------------------------------------------------------------- *)
(* Resolution maps                                                         *)
(* ---------------------------------------------------------------------- *)
\* A resolutions dict, in insertion order: a sequence of buckets
\* [resource, cites] with pairwise different resources.
BucketOf(resolutions, resource) ==
    { b \in DOMAIN resolutions : resolutions[b].resource = resource }

AddCite(resolutions, resource, t) ==
    IF BucketOf(resolutions, resource) = {}
    THEN Append(resolutions, [resource |-> resource, cites |-> <<t>>])
    ELSE [b \in DOMAIN resolutions |->
            IF resolutions[b].resource = resource
            THEN [resolutions[b] EXCEPT !.cites = Append(@, t)]
            ELSE resolutions[b]]

\* The resource a short case citation resolves to: that of the full case
\* citations of the same reporter and volume already resolved in the call
\* (only "case" has the volume and reporter of "short", only "casev" those
\* of "shortv"); <<>> for none.
ShortCaseAntecedent(resolutions, t) ==
    LET brown == ResourceKey("case", <<"Brown v. Board", "U.S.", "347", "483", "1954">>)
        davis == ResourceKey("case", <<"Davis v. Roe", "F.3d", "125", "10", "1998">>)
        full == IF doc[t].kind = "shortv" THEN davis ELSE brown
    IN IF BucketOf(resolutions, full) # {} THEN <<full>> ELSE <<>>

\* resolve_citations(citations, resolve_full_citation=_bind_full_citation):
\* every full citation goes to the bucket of its bound resource, an Id. to
\* the bucket of the citation before it in the same call, a short case
\* citation to the bucket of its antecedent; a short form that finds none is
\* unresolved and is in no bucket.
RECURSIVE ResolveFrom(_, _, _)
ResolveFrom(citations, resolutions, last) ==
    IF citations = <<>> THEN resolutions
    ELSE LET t == Head(citations)
             found == IF _ctype(t) = "ShortCaseCitation"
                      THEN ShortCaseAntecedent(resolutions, t)
                      ELSE last
         IN
         IF IsFullCitation(t)
         THEN ResolveFrom(Tail(citations), AddCite(resolutions, _bind_full_citation(t), t),
                          <<_bind_full_citation(t)>>)
         ELSE IF found # <<>>
              THEN ResolveFrom(Tail(citations), AddCite(resolutions, found[1], t), found)
              ELSE ResolveFrom(Tail(citations), resolutions, <<>>)

resolve_citations(citations) == ResolveFrom(citations, <<>>, <<>>)

\* { f"raw:{idx}": [citation] for idx, citation in enumerate(citations) }
RawFallback(citations) ==
    [n \in DOMAIN citations |-> [resource |-> RawResource(n - 1), cites |-> <<citations[n]>>]]

\* get_citations on the text of one region: the tokenizer's citation objects.
get_citations(r) == SelectSeq(RegionItems(r), IsToken)

RECURSIVE MergeFrom(_, _, _)
MergeFrom(target, resource, cites) ==
    IF cites = <<>>
    THEN IF BucketOf(target, resource) = {}
         THEN Append(target, [resource |-> resource, cites |-> <<>>])
         ELSE target
    ELSE MergeFrom(AddCite(target, resource, Head(cites)), resource, Tail(cites))

RECURSIVE _merge_resolutions(_, _)
_merge_resolutions(target, source) ==
    IF source = <<>> THEN target
    ELSE _merge_resolutions(MergeFrom(target, Head(source).resource, Head(source).cites),
                            Tail(source))

\* All citation objects of a resolutions dict, in iteration order.
RECURSIVE AllCites(_)
AllCites(resolutions) ==
    IF resolutions = <<>> THEN <<>> ELSE Head(resolutions).cites \o AllCites(Tail(resolutions))

(* ---------------------------------------------------------------------- *)
(* Segments                                                                *)
(* ---------------------------------------------------------------------- *)
CitationSegment(r, position) ==
    [text |-> r, original_span |-> <<SegmentStart(r), SegmentStart(r) + 10 * Len(RegionItems(r))>>,
     string_group_id |-> "string_group_0", position_in_string |-> position]

NoSegment == [text |-> "None", original_span |-> <<0, 0>>,
              string_group_id |-> "None", position_in_string |-> -1]

\* split_string_citation on the detected string citation: its two segments.
split_string_citation == <<CitationSegment("seg0", 0), CitationSegment("seg1", 1)>>

\* dict update: later entries replace earlier ones under the same index.
RECURSIVE RecordSpans(_, _, _)
RecordSpans(spans, segment, cites) ==
    IF cites = <<>> THEN spans
    ELSE RecordSpans((_get_index(Head(cites)) :>
                        <<segment.original_span[1] + get_span(Head(cites))[1],
                          segment.original_span[1] + get_span(Head(cites))[2]>>) @@ spans,
                     segment, Tail(cites))

RECURSIVE RecordSegments(_, _, _)
RecordSegments(metadata, segment, cites) ==
    IF cites = <<>> THEN metadata
    ELSE RecordSegments((_get_index(Head(cites)) :> segment) @@ metadata, segment, Tail(cites))

\* _process_citation_segment: tokenizer is "ok", or get_citations raises, or
\* resolve_citations raises.
_process_citation_segment(segment, tokenizer, spans) ==
    IF tokenizer = "get_citations_raises"
    THEN [resolutions |-> <<>>, segment_metadata |-> <<>>, adjusted_spans |-> spans]
    ELSE LET citations == get_citations(segment.text)
             resolutions == IF tokenizer = "resolve_citations_raises"
                            THEN RawFallback(citations)
                            ELSE resolve_citations(citations)
         IN [resolutions |-> resolutions,
             segment_metadata |-> RecordSegments(<<>>, segment, AllCites(resolutions)),
             adjusted_spans |-> RecordSpans(spans, segment, AllCites(resolutions))]

_get_adjusted_span(t, spans) ==
    IF _get_index(t) \in DOMAIN spans THEN spans[_get_index(t)] ELSE get_span(t)

(* ---------------------------------------------------------------------- *)
(* String-local short form correction                                      *)
(* ---------------------------------------------------------------------- *)
\* Case names are sequences of characters.
get_case_name(t) ==
    CASE doc[t].kind = "case2" -> <<"B", "r", "o", "w", "n", " ", "v", ".", " ", "A", "l", "l", "e", "n">>
      [] doc[t].kind \in {"casep", "casey"} -> <<"D", "o", "e", " ", "v", ".", " ", "R", "o", "e">>
      [] doc[t].kind = "casev" -> <<"D", "a", "v", "i", "s", " ", "v", ".", " ", "R", "o", "e">>
      [] OTHER -> <<"B", "r", "o", "w", "n", " ", "v", ".", " ", "B", "o", "a", "r", "d">>

\* metadata.antecedent_guess of the short forms Brown, 347 U.S. at 495 and
\* Davis, 125 F.3d at 12
antecedent_guess(t) ==
    IF doc[t].kind = "shortv" THEN <<"D", "a", "v", "i", "s">> ELSE <<"B", "r", "o", "w", "n">>

Lower(c) ==
    CASE c = "A" -> "a" [] c = "B" -> "b" [] c = "D" -> "d" [] c = "R" -> "r" [] OTHER -> c

IsAlnum(c) == c \notin {" ", ".", ",", "'", "-", "&"}

normalize_case_name_for_compare(name) ==
    LET kept == SelectSeq(name, IsAlnum) IN [i \in DOMAIN kept |-> Lower(kept[i])]

\* normalized.split("v")[0]
FirstSplitOnV(normalized) ==
    LET vs == { i \in DOMAIN normalized : normalized[i] = "v" } IN
    IF vs = {} THEN normalized
    ELSE SubSeq(normalized, 1, (CHOOSE i \in vs : \A j \in vs : i <= j) - 1)

\* The lookup key, <<>> for None.
_make_short_lookup_key(t) ==
    CASE _ctype(t) = "FullCaseCitation" -> FirstSplitOnV(normalize_case_name_for_compare(get_case_name(t)))
      [] _ctype(t) = "ShortCaseCitation" -> normalize_case_name_for_compare(antecedent_guess(t))
      [] _ctype(t) = "IdCitation" -> <<"__ID_OR_SUPRA__">>
      [] _ctype(t) = "FullLawCitation" -> <<_bind_full_citation(t).id_tuple[2], "::", _bind_full_citation(t).id_tuple[3]>>
      [] OTHER -> <<>>

RECURSIVE GroupItemsFrom(_, _)
GroupItemsFrom(resolutions, metadata) ==
    IF resolutions = <<>> THEN <<>>
    ELSE LET b == Head(resolutions)
             mine == SelectSeq(b.cites, LAMBDA t : _get_index(t) \in DOMAIN metadata)
         IN [i \in DOMAIN mine |->
               [resource_key |-> b.resource, cite |-> mine[i], segment |-> metadata[_get_index(mine[i])]]]
            \o GroupItemsFrom(Tail(resolutions), metadata)

\* sorted(group_items, key=position_in_string): stable insertion sort.
RECURSIVE InsertByPosition(_, _)
InsertByPosition(sorted, item) ==
    IF sorted = <<>> THEN <<item>>
    ELSE IF Head(sorted).segment.position_in_string <= item.segment.position_in_string
         THEN <<Head(sorted)>> \o InsertByPosition(Tail(sorted), item)
         ELSE <<item>> \o sorted

RECURSIVE SortByPosition(_)
SortByPosition(items) ==
    IF items = <<>> THEN <<>>
    ELSE InsertByPosition(SortByPosition(SubSeq(items, 1, Len(items) - 1)), items[Len(items)])

\* local_fulls[i].get(lookup_key): the last full citation before place i of
\* the sorted group that registered lookup_key; 0 for none.
LocalAntecedent(sorted, i, lookup_key) ==
    LET fulls == { k \in 1..(i - 1) : /\ IsFullCitation(sorted[k].cite)
                                      /\ _make_short_lookup_key(sorted[k].cite) # <<>>
                                      /\ _make_short_lookup_key(sorted[k].cite) = lookup_key }
    IN IF fulls = {} THEN 0 ELSE CHOOSE k \in fulls : \A j \in fulls : j <= k

RECURSIVE RemoveFirst(_, _)
RemoveFirst(cites, t) ==
    IF cites = <<>> THEN <<>>
    ELSE IF Head(cites) = t THEN Tail(cites)
    ELSE <<Head(cites)>> \o RemoveFirst(Tail(cites), t)

\* Mutation of RemoveCite: the moved token is left in its source bucket.
RemoveCite_keeps_token(resolutions, resource, t) == resolutions

RemoveCite(resolutions, resource, t) ==
    [b \in DOMAIN resolutions |->
        IF resolutions[b].resource = resource
        THEN [resolutions[b] EXCEPT !.cites = RemoveFirst(@, t)]
        ELSE resolutions[b]]

\* Mutation of ReassignFrom: a short form is taken out of its bucket before
\* its local antecedent is looked up, and is lost when there is none.
RECURSIVE ReassignFrom_drops_unmatched(_, _, _)
ReassignFrom_drops_unmatched(resolutions, sorted, i) ==
    IF i > Len(sorted) THEN resolutions
    ELSE LET item == sorted[i]
             lookup_key == _make_short_lookup_key(item.cite)
             k == LocalAntecedent(sorted, i, lookup_key)
             removed == RemoveCite(resolutions, item.resource_key, item.cite)
         IN IF _ctype(item.cite) \in {"ShortCaseCitation", "IdCitation", "SupraCitation"}
            THEN IF lookup_key # <<>> /\ k # 0
                 THEN ReassignFrom_drops_unmatched(
                          AddCite(removed, sorted[k].resource_key, item.cite), sorted, i + 1)
                 ELSE ReassignFrom_drops_unmatched(removed, sorted, i + 1)
            ELSE ReassignFrom_drops_unmatched(resolutions, sorted, i + 1)

RECURSIVE ReassignFrom(_, _, _)
ReassignFrom(resolutions, sorted, i) ==
    IF i > Len(sorted) THEN resolutions
    ELSE LET item == sorted[i]
             lookup_key == _make_short_lookup_key(item.cite)
             k == LocalAntecedent(sorted, i, lookup_key)
         IN IF /\ _ctype(item.cite) \in {"ShortCaseCitation", "IdCitation", "SupraCitation"}
               /\ lookup_key # <<>>
               /\ k # 0
               /\ sorted[k].resource_key # item.resource_key
            THEN ReassignFrom(AddCite(RemoveCite(resolutions, item.resource_key, item.cite),
                                      sorted[k].resource_key, item.cite),
                              sorted, i + 1)
            ELSE ReassignFrom(resolutions, sorted, i + 1)

\* One string group in a document: every item with segment metadata is in it.
_resolve_string_local_shorts(resolutions, metadata) ==
    ReassignFrom(resolutions, SortByPosition(GroupItemsFrom(resolutions, metadata)), 1)

(* ---------------------------------------------------------------------- *)
(* Citation database                                                       *)
(* ---------------------------------------------------------------------- *)
\* A dict is a function on its set of keys; <<>> is the empty dict.
Put(dict, key, value) == (key :> value) @@ dict

NoIndex == -1

Occurrence(t, metadata, spans) ==
    LET cite_idx == _get_index(t)
        has_segment == cite_idx # 0 /\ cite_idx \in DOMAIN metadata
        segment == IF has_segment THEN metadata[cite_idx] ELSE NoSegment
    IN [citation_obj |-> t,
        citation_category |-> _citation_category(t),
        span |-> _get_adjusted_span(t, spans),
        index |-> cite_idx,
        string_group_id |-> segment.string_group_id,
        position_in_string |-> segment.position_in_string]

\* Mutation of Occurrences: only the full citations of a bucket are recorded.
Occurrences_fulls_only(cites, metadata, spans) ==
    LET fulls == SelectSeq(cites, IsFullCitation) IN
    [i \in DOMAIN fulls |-> Occurrence(fulls[i], metadata, spans)]

Occurrences(cites, metadata, spans) ==
    [i \in DOMAIN cites |-> Occurrence(cites[i], metadata, spans)]

\* first FullCitation of the bucket, 0 for None
PrimaryFull(cites) ==
    LET fulls == { i \in DOMAIN cites : IsFullCitation(cites[i]) } IN
    IF fulls = {} THEN 0 ELSE cites[CHOOSE i \in fulls : \A j \in fulls : i <= j]

EntryType(bucket) ==
    IF PrimaryFull(bucket.cites) # 0
    THEN _get_citation_type(PrimaryFull(bucket.cites))
    ELSE bucket.resource.kind

PendingResult == Result("pending", "state_law_verification_pending", "None")

\* What the verification branch of the bucket loop can leave in
\* (status, substatus, verification_details), over all provider responses.
VerificationOutcomes(bucket) ==
    LET entry_type == EntryType(bucket)
        primary_full == PrimaryFull(bucket.cites)
        jurisdiction == IF primary_full # 0 /\ _ctype(primary_full) = "FullLawCitation"
                        THEN classify_full_law_jurisdiction(primary_full)
                        ELSE "None"
    IN CASE entry_type = "case" -> { verify_case_citation(r) : r \in CaseResponses }
         [] entry_type = "law" /\ jurisdiction = "federal" ->
                { verify_federal_law_citation(r) : r \in FederalResponses }
         [] entry_type = "law" /\ jurisdiction = "state" -> { PendingResult }
         [] entry_type = "law" -> { Result("error", "unsupported_jurisdiction", "details") }
         [] entry_type = "journal" -> { verify_journal_citation(r) : r \in JournalResponses }
         [] OTHER -> { Result("error", "str_verification_unsupported", "None") }

NewEntry(entry_type, result, full_citation_obj, occurrences) ==
    [type |-> entry_type,
     status |-> result.status,
     substatus |-> result.substatus,
     verification_details |-> result.details,
     full_citation_obj |-> full_citation_obj,
     occurrences |-> occurrences]

\* Mutation of _verify_state_async: no except clause around the verifier call.
_verify_state_async_unguarded(resp) == verify_state_law_citation(resp)

\* _verify_state_async: the tuple the background task returns.
_verify_state_async(resp) ==
    LET result == verify_state_law_citation(resp) IN
    IF result.exc # "None" THEN Result("error", "state_law_async_failed", "None") ELSE result

NoResult == Result("None", "None", "None")

\* how asyncio.to_thread(verify_state_law_citation, ...) ends
ThreadOutcome(resp) ==
    IF verify_state_law_citation(resp).exc # "None" THEN "raised" ELSE "returned"

\* Mutation of PatchFrom: the entry of a task that ended in an error is
\* taken out of the database.
RECURSIVE PatchFrom_drops_failed(_, _)
PatchFrom_drops_failed(db, tasks) ==
    IF tasks = <<>> THEN db
    ELSE LET task == Head(tasks) IN
         IF task.resource_key \notin DOMAIN db
         THEN PatchFrom_drops_failed(db, Tail(tasks))
         ELSE IF task.result.status = "error"
         THEN PatchFrom_drops_failed([k \in DOMAIN db \ {task.resource_key} |-> db[k]], Tail(tasks))
         ELSE PatchFrom_drops_failed([db EXCEPT ![task.resource_key] =
                                         [@ EXCEPT !.status = task.result.status,
                                                   !.substatus = task.result.substatus,
                                                   !.verification_details = task.result.details]],
                                     Tail(tasks))

\* the merge-back loop over the gathered task results, in task order
RECURSIVE PatchFrom(_, _)
PatchFrom(db, tasks) ==
    IF tasks = <<>> THEN db
    ELSE LET task == Head(tasks) IN
         IF task.resource_key \notin DOMAIN db
         THEN PatchFrom(db, Tail(tasks))
         ELSE PatchFrom([db EXCEPT ![task.resource_key] =
                            [@ EXCEPT !.status = task.result.status,
                                      !.substatus = task.result.substatus,
                                      !.verification_details = task.result.details]],
                        Tail(tasks))

(* ---------------------------------------------------------------------- *)
(* Secondary sources                                                       *)
(* ---------------------------------------------------------------------- *)
Overlaps(a, b) == ~(a[2] <= b[1] \/ a[1] >= b[2])

\* spans of the occurrences already in the database
EyeciteSpans(db) ==
    UNION { { db[k].occurrences[i].span : i \in DOMAIN db[k].occurrences } : k \in DOMAIN db }

\* (start, end, type, cite) of every occurrence of the database
DatabaseSpans(db) ==
    UNION { { [span |-> db[k].occurrences[i].span, type |-> db[k].type, cite |-> 0] :
                i \in DOMAIN db[k].occurrences } : k \in DOMAIN db }

_overlaps_with_eyecite(span, eyecite_spans) == \E e \in eyecite_spans : Overlaps(span, e)

\* detect_secondary_citations: matches of the full patterns that overlap no
\* tokenizer span, in document order ...
DetectFull(eyecite_spans) ==
    SelectSeq([i \in DOMAIN doc |-> i],
              LAMBDA t : doc[t].kind = "secfull" /\ ~_overlaps_with_eyecite(ItemSpan(t), eyecite_spans))

_overlaps_with_full(span, full_citations) ==
    \E i \in DOMAIN full_citations : Overlaps(span, ItemSpan(full_citations[i]))

\* ... and matches of the short form patterns that overlap neither a
\* tokenizer span nor a full secondary citation.
DetectShort(eyecite_spans, full_citations) ==
    SelectSeq([i \in DOMAIN doc |-> i],
              LAMBDA t : /\ doc[t].kind = "id"
                         /\ ~_overlaps_with_eyecite(ItemSpan(t), eyecite_spans)
                         /\ ~_overlaps_with_full(ItemSpan(t), full_citations))

\* SecondaryCitation.to_resource_key
to_resource_key(t) ==
    IF doc[t].kind = "secfull"
    THEN <<"secondary", "cjs", "88", "Contracts", "195">>
    ELSE <<"secondary", "unknown", "unknown", "unknown", "unknown">>

SecondaryCitation(t, category, source_type, antecedent_key) ==
    [cite |-> t, citation_category |-> category, source_type |-> source_type,
     span |-> ItemSpan(t), antecedent_key |-> antecedent_key]

\* _find_preceding_citation: of the citations that end at or before position,
\* the one that ends last; {} for None.
_find_preceding_citation(position, all_citation_spans) ==
    LET preceding == { c \in all_citation_spans : c.span[2] <= position } IN
    { c \in preceding : \A d \in preceding : d.span[2] <= c.span[2] }

\* Mutation of _resolve_short: the type of the preceding citation is not
\* looked at.
_resolve_short_any_preceding(t, all_citation_spans) ==
    LET preceding == _find_preceding_citation(ItemSpan(t)[1], all_citation_spans) IN
    IF preceding # {}
    THEN SecondaryCitation(t, "id", "cjs", <<>>)
    ELSE SecondaryCitation(t, "id", "non_secondary", <<>>)

\* _resolve_short for an Id./Ibid. short form
_resolve_short(t, all_citation_spans) ==
    LET preceding == _find_preceding_citation(ItemSpan(t)[1], all_citation_spans) IN
    IF preceding # {} /\ \A c \in preceding : c.type = "secondary"
    THEN LET secondary_cite == (CHOOSE c \in preceding : TRUE).cite IN
         SecondaryCitation(t, "id", "cjs", to_resource_key(secondary_cite))
    ELSE SecondaryCitation(t, "id", "non_secondary", <<>>)

SecondaryOccurrence(cite) ==
    [citation_obj |-> cite.cite,
     citation_category |-> cite.citation_category,
     span |-> cite.span,
     index |-> NoIndex,
     string_group_id |-> "None",
     position_in_string |-> -1]

\* _add_secondary_to_db; loc is the Library of Congress answer used when the
\* citation is verified.
_add_secondary_to_db(cite, db, is_full, loc) ==
    LET resource_key == IF cite.antecedent_key # <<>> /\ ~is_full
                        THEN cite.antecedent_key
                        ELSE to_resource_key(cite.cite)
    IN IF resource_key \in DOMAIN db
       THEN [db EXCEPT ![resource_key].occurrences = Append(@, SecondaryOccurrence(cite))]
       ELSE Put(db, to_resource_key(cite.cite),
                NewEntry("secondary",
                         IF is_full
                         THEN verify_secondary_citation(loc)
                         ELSE Result("warning", "short_form_unresolved", "details"),
                         cite.cite, <<SecondaryOccurrence(cite)>>))

RECURSIVE AddAll(_, _, _, _)
AddAll(cites, db, is_full, loc) ==
    IF cites = <<>> THEN db
    ELSE AddAll(Tail(cites), _add_secondary_to_db(Head(cites), db, is_full, loc), is_full, loc)

\* _process_secondary_citations: the detected and resolved citations and the
\* database after the call.
_process_secondary_citations(db, loc) ==
    LET eyecite_spans == EyeciteSpans(db)
        fulls == DetectFull(eyecite_spans)
        shorts == DetectShort(eyecite_spans, fulls)
        full_citations == [i \in DOMAIN fulls |-> SecondaryCitation(fulls[i], "full", "cjs", <<>>)]
        all_citation_spans ==
            DatabaseSpans(db) \cup
            { [span |-> ItemSpan(fulls[i]), type |-> "secondary", cite |-> fulls[i]] : i \in DOMAIN fulls }
        resolved_shorts == [i \in DOMAIN shorts |-> _resolve_short(shorts[i], all_citation_spans)]
        kept == SelectSeq(resolved_shorts, LAMBDA c : c.source_type # "non_secondary")
    IN [full_citations |-> full_citations,
        resolved_shorts |-> resolved_shorts,
        citation_db |-> AddAll(kept, AddAll(full_citations, db, TRUE, loc), FALSE, loc)]

(* ---------------------------------------------------------------------- *)
(* compile_citations                                                       *)
(* ---------------------------------------------------------------------- *)
\* In these specifications the text is given by doc, the items found in it;
\* the character-level steps 1 and 2 are the subject of SpecString.
NoText == text = <<>> /\ string_citation_spans = <<>> /\ string_group_counter = 0

Init ==
    /\ doc \in Docs
    /\ has_string \in BOOLEAN
    /\ (doc # <<>>) => (has_string <=> doc[1].region # "doc")
    /\ pc = "segmenting"
    /\ all_segments = <<>>
    /\ seg_i = 1
    /\ all_resolutions = <<>>
    /\ all_segment_metadata = <<>>
    /\ adjusted_spans = <<>>
    /\ bucket_i = 1
    /\ citation_db = <<>>
    /\ state_tasks = <<>>
    /\ secondary = [full_citations |-> <<>>, resolved_shorts |-> <<>>]
    /\ raised = "None"
    /\ NoText
    /\ NoOtherVars

\* Steps 1 and 2: detect the string citation and split it into segments.
Segment ==
    /\ pc = "segmenting"
    /\ all_segments' = IF has_string THEN split_string_citation ELSE <<>>
    /\ pc' = IF has_string THEN "processing" ELSE "standard"
    /\ UNCHANGED <<text, string_citation_spans, string_group_counter, doc, has_string, seg_i, all_resolutions, all_segment_metadata,
                   adjusted_spans, bucket_i, citation_db, state_tasks, secondary, raised>>
    /\ UNCHANGED other_vars

\* Step 3, one turn of the loop over all_segments.
ProcessSegment ==
    /\ pc = "processing"
    /\ seg_i <= Len(all_segments)
    /\ \E tokenizer \in {"ok", "get_citations_raises", "resolve_citations_raises"} :
         LET got == _process_citation_segment(all_segments[seg_i], tokenizer, adjusted_spans) IN
         /\ all_resolutions' = _merge_resolutions(all_resolutions, got.resolutions)
         /\ all_segment_metadata' = got.segment_metadata @@ all_segment_metadata
         /\ adjusted_spans' = got.adjusted_spans
    /\ seg_i' = seg_i + 1
    /\ pc' = IF seg_i = Len(all_segments) THEN "standard" ELSE "processing"
    /\ UNCHANGED <<text, string_citation_spans, string_group_counter, doc, has_string, all_segments, bucket_i, citation_db, state_tasks,
                   secondary, raised>>
    /\ UNCHANGED other_vars

AnyCites(resolutions) == \E b \in DOMAIN resolutions : resolutions[b].cites # <<>>

\* Step 4: without segments the whole document goes through the tokenizer;
\* then the early return on an empty resolution map.
StandardFlow ==
    /\ pc = "standard"
    /\ \E tokenizer \in {"ok", "get_citations_raises", "resolve_citations_raises"} :
         IF all_segments = <<>> /\ tokenizer = "get_citations_raises"
         THEN /\ pc' = "raised"
              /\ raised' = "get_citations"
              /\ UNCHANGED all_resolutions
         ELSE LET citations == get_citations("doc")
                  resolutions ==
                      IF all_segments # <<>> THEN all_resolutions
                      ELSE IF tokenizer = "resolve_citations_raises" THEN RawFallback(citations)
                      ELSE resolve_citations(citations)
              IN /\ all_resolutions' = IF all_segments = <<>> /\ citations = <<>>
                                       THEN all_resolutions ELSE resolutions
                 /\ pc' = IF (all_segments = <<>> /\ citations = <<>>) \/ ~AnyCites(resolutions)
                          THEN "done" ELSE "correcting"
                 /\ UNCHANGED raised
    /\ UNCHANGED <<text, string_citation_spans, string_group_counter, doc, has_string, all_segments, seg_i, all_segment_metadata, adjusted_spans,
                   bucket_i, citation_db, state_tasks, secondary>>
    /\ UNCHANGED other_vars

\* Step 5.
Correct ==
    /\ pc = "correcting"
    /\ all_resolutions' = _resolve_string_local_shorts(all_resolutions, all_segment_metadata)
    /\ pc' = "verifying"
    /\ UNCHANGED <<text, string_citation_spans, string_group_counter, doc, has_string, all_segments, seg_i, all_segment_metadata, adjusted_spans,
                   bucket_i, citation_db, state_tasks, secondary, raised>>
    /\ UNCHANGED other_vars

AfterBuckets(tasks) == IF tasks # <<>> THEN "awaiting" ELSE "secondary"

\* Step 6, one turn of the loop over the buckets: verify, store the entry,
\* add the occurrences.
BuildEntry ==
    /\ pc = "verifying"
    /\ bucket_i <= Len(all_resolutions)
    /\ LET bucket == all_resolutions[bucket_i]
           resource_key == _resource_identifier(bucket.resource)
           is_state == PendingResult \in VerificationOutcomes(bucket)
           tasks == IF bucket.cites # <<>> /\ is_state
                    THEN Append(state_tasks, [resource_key |-> resource_key, state |-> "created",
                                              thread |-> "None", api_key |-> "None",
                                              result |-> NoResult])
                    ELSE state_tasks
       IN IF bucket.cites = <<>>
          THEN /\ pc' = IF bucket_i = Len(all_resolutions) THEN AfterBuckets(tasks) ELSE pc
               /\ UNCHANGED <<citation_db, state_tasks, raised>>
          ELSE \E result \in VerificationOutcomes(bucket) :
                 IF result.exc # "None"
                 THEN /\ pc' = "raised"
                      /\ raised' = "verifier"
                      /\ UNCHANGED <<citation_db, state_tasks>>
                 ELSE /\ citation_db' =
                           Put(citation_db, resource_key,
                               NewEntry(EntryType(bucket), result, PrimaryFull(bucket.cites),
                                        Occurrences(bucket.cites, all_segment_metadata, adjusted_spans)))
                      /\ state_tasks' = tasks
                      /\ pc' = IF bucket_i = Len(all_resolutions) THEN AfterBuckets(tasks) ELSE pc
                      /\ UNCHANGED raised
    /\ bucket_i' = bucket_i + 1
    /\ UNCHANGED <<text, string_citation_spans, string_group_counter, doc, has_string, all_segments, seg_i, all_resolutions, all_segment_metadata,
                   adjusted_spans, secondary>>
    /\ UNCHANGED other_vars

\* A background task starts once the orchestrating coroutine is suspended in
\* asyncio.gather ...
TaskStart(i) ==
    /\ pc = "awaiting"
    /\ state_tasks[i].state = "created"
    /\ state_tasks' = [state_tasks EXCEPT ![i].state = "running"]
    /\ UNCHANGED <<text, string_citation_spans, string_group_counter, doc, has_string, pc, all_segments, seg_i, all_resolutions,
                   all_segment_metadata, adjusted_spans, bucket_i, citation_db, secondary, raised>>
    /\ UNCHANGED other_vars

\* Mutation of TaskFinish: the task writes its result into the database.
TaskFinish_writes_database(i) ==
    /\ pc = "awaiting"
    /\ state_tasks[i].state = "running"
    /\ \E resp \in StateResponses :
         /\ state_tasks' = [state_tasks EXCEPT ![i].state = "done",
                                               ![i].thread = ThreadOutcome(resp),
                                               ![i].api_key = resp.api_key,
                                               ![i].result = _verify_state_async(resp)]
         /\ citation_db' = PatchFrom(citation_db, <<state_tasks'[i]>>)
    /\ UNCHANGED <<text, string_citation_spans, string_group_counter, doc, has_string, pc, all_segments, seg_i, all_resolutions,
                   all_segment_metadata, adjusted_spans, bucket_i, secondary, raised>>
    /\ UNCHANGED other_vars

\* ... and finishes when its worker thread returns or raises; thread keeps
\* how the verifier call in the worker thread ended.
TaskFinish(i) ==
    /\ pc = "awaiting"
    /\ state_tasks[i].state = "running"
    /\ \E resp \in StateResponses :
         state_tasks' = [state_tasks EXCEPT ![i].state = "done",
                                            ![i].thread = ThreadOutcome(resp),
                                               ![i].api_key = resp.api_key,
                                            ![i].result = _verify_state_async(resp)]
    /\ UNCHANGED <<text, string_citation_spans, string_group_counter, doc, has_string, pc, all_segments, seg_i, all_resolutions,
                   all_segment_metadata, adjusted_spans, bucket_i, citation_db, secondary, raised>>
    /\ UNCHANGED other_vars

\* asyncio.gather returned: patch the entries with the task results.
MergeBack ==
    /\ pc = "awaiting"
    /\ \A i \in DOMAIN state_tasks : state_tasks[i].state = "done"
    /\ citation_db' = PatchFrom(citation_db, state_tasks)
    /\ pc' = "secondary"
    /\ UNCHANGED <<text, string_citation_spans, string_group_counter, doc, has_string, all_segments, seg_i, all_resolutions, all_segment_metadata,
                   adjusted_spans, bucket_i, state_tasks, secondary, raised>>
    /\ UNCHANGED other_vars

\* Step 7.
Secondary ==
    /\ pc = "secondary"
    /\ \E loc \in LocResponses :
         LET got == _process_secondary_citations(citation_db, loc) IN
         /\ citation_db' = got.citation_db
         /\ secondary' = [full_citations |-> got.full_citations,
                          resolved_shorts |-> got.resolved_shorts]
    /\ pc' = "done"
    /\ UNCHANGED <<text, string_citation_spans, string_group_counter, doc, has_string, all_segments, seg_i, all_resolutions, all_segment_metadata,
                   adjusted_spans, bucket_i, state_tasks, raised>>
    /\ UNCHANGED other_vars

Next ==
    \/ Segment
    \/ ProcessSegment
    \/ StandardFlow
    \/ Correct
    \/ BuildEntry
    \/ \E i \in 1..(MaxTokens + 1) : i \in DOMAIN state_tasks /\ TaskStart(i)
    \/ \E i \in 1..(MaxTokens + 1) : i \in DOMAIN state_tasks /\ TaskFinish(i)
    \/ MergeBack
    \/ Secondary

Spec == Init /\ [][Next]_vars

(* ---------------------------------------------------------------------- *)
(* compile_citations on documents of case citations                        *)
(* ---------------------------------------------------------------------- *)
InitCases ==
    /\ doc \in CaseDocs
    /\ has_string \in BOOLEAN
    /\ (doc # <<>>) => (has_string <=> doc[1].region # "doc")
    /\ pc = "segmenting"
    /\ all_segments = <<>>
    /\ seg_i = 1
    /\ all_resolutions = <<>>
    /\ all_segment_metadata = <<>>
    /\ adjusted_spans = <<>>
    /\ bucket_i = 1
    /\ citation_db = <<>>
    /\ state_tasks = <<>>
    /\ secondary = [full_citations |-> <<>>, resolved_shorts |-> <<>>]
    /\ raised = "None"
    /\ NoText
    /\ NoOtherVars

\* No state statute in these documents: no background task is created.
NextCases ==
    \/ Segment
    \/ ProcessSegment
    \/ StandardFlow
    \/ Correct
    \/ BuildEntry
    \/ Secondary

SpecCases == InitCases /\ [][NextCases]_vars

(* ---------------------------------------------------------------------- *)
(* compile_citations on documents of case citations and their short forms  *)
(* ---------------------------------------------------------------------- *)
InitNames ==
    /\ doc \in NameDocs
    /\ has_string \in BOOLEAN
    /\ (doc # <<>>) => (has_string <=> doc[1].region # "doc")
    /\ pc = "segmenting"
    /\ all_segments = <<>>
    /\ seg_i = 1
    /\ all_resolutions = <<>>
    /\ all_segment_metadata = <<>>
    /\ adjusted_spans = <<>>
    /\ bucket_i = 1
    /\ citation_db = <<>>
    /\ state_tasks = <<>>
    /\ secondary = [full_citations |-> <<>>, resolved_shorts |-> <<>>]
    /\ raised = "None"
    /\ NoText
    /\ NoOtherVars

SpecNames == InitNames /\ [][NextCases]_vars

(* ---------------------------------------------------------------------- *)
(* Steps 1 and 2 on the characters of the text                             *)
(* ---------------------------------------------------------------------- *)
\* A text is a sequence of characters; positions and spans count from 0 and
\* a span <<a, b>> excludes b, as in the source.
MaxCitations == 2

UpperSeq == <<"A", "B", "C", "D", "E", "F", "G", "H", "I", "J", "K", "L", "M", "N", "O", "P", "Q", "R", "S", "T", "U", "V", "W", "X", "Y", "Z">>
LowerSeq == <<"a", "b", "c", "d", "e", "f", "g", "h", "i", "j", "k", "l", "m", "n", "o", "p", "q", "r", "s", "t", "u", "v", "w", "x", "y", "z">>
UpperLetters == { UpperSeq[k] : k \in DOMAIN UpperSeq }
LowerLetters == { LowerSeq[k] : k \in DOMAIN LowerSeq }
Letters == UpperLetters \cup LowerLetters
Digits == {"0", "1", "2", "3", "4", "5", "6", "7", "8", "9"}
\* \w and [\w.]
WordChars == Letters \cup Digits \cup {"_"}
WordOrDot == WordChars \cup {"."}
\* \s; the texts hold no other white space than the blank.
Whitespace == {" "}
SectionSign == "§"

\* str.lower() on one character
ToLower(c) == IF c \in UpperLetters THEN LowerSeq[CHOOSE k \in DOMAIN UpperSeq : UpperSeq[k] = c] ELSE c

lower(s) == [k \in DOMAIN s |-> ToLower(s[k])]

At(s, i) == s[i + 1]

Is(s, i, class) == i >= 0 /\ i < Len(s) /\ s[i + 1] \in class

\* s[a:b]
Slice(s, a, b) == SubSeq(s, a + 1, b)

\* The least position of a set, -1 for the empty set.
First(positions) ==
    IF positions = {} THEN -1 ELSE CHOOSE k \in positions : \A j \in positions : k <= j

\* End of the longest run of characters of a class that starts at i.
RunEnd(s, i, class) ==
    IF ~Is(s, i, class) THEN i
    ELSE First({ k \in i..Len(s) : k = Len(s) \/ s[k + 1] \notin class })

\* First position from p on that holds a character of the class, -1 for none.
NextOf(s, p, class) == First({ k \in p..(Len(s) - 1) : k >= 0 /\ s[k + 1] \in class })

\* str.strip()
strip(s) ==
    LET a == RunEnd(s, 0, Whitespace)
        kept == { k \in DOMAIN s : s[k] \notin Whitespace }
    IN IF kept = {} THEN <<>> ELSE Slice(s, a, CHOOSE k \in kept : \A j \in kept : j <= k)

\* str.find(sub, start)
find(s, sub, start) ==
    First({ k \in start..(Len(s) - Len(sub)) : Slice(s, k, k + Len(sub)) = sub })

\* `sub in s`
Contains(s, sub) == find(s, sub, 0) # -1

\* A literal of a pattern compiled with IGNORECASE, at position i.
LiteralAt(s, i, word) ==
    /\ i + Len(word) <= Len(s)
    /\ \A k \in DOMAIN word : ToLower(s[i + k]) = word[k]

\* [A-Z][a-z]+(?:\s+[A-Z][a-z]+)*\s+v\.  at position i: the position after
\* the match, -1 for no match. ignorecase is the IGNORECASE flag.
RECURSIVE CaseNameEnd(_, _, _)
CaseNameEnd(s, i, ignorecase) ==
    LET first == IF ignorecase THEN Letters ELSE UpperLetters
        others == IF ignorecase THEN Letters ELSE LowerLetters
        word_end == RunEnd(s, i + 1, others)
        next == RunEnd(s, word_end, Whitespace)
    IN IF ~(Is(s, i, first) /\ word_end > i + 1 /\ next > word_end) THEN -1
       ELSE IF Is(s, next, IF ignorecase THEN {"v", "V"} ELSE {"v"}) /\ Is(s, next + 1, {"."})
            THEN next + 2
            ELSE CaseNameEnd(s, next, ignorecase)

\* In\s+re\s+[A-Z] (IGNORECASE)
InReAt(s, i) ==
    LET a == RunEnd(s, i + 2, Whitespace)
        b == RunEnd(s, a + 2, Whitespace)
    IN /\ LiteralAt(s, i, <<"i", "n">>) /\ a > i + 2
       /\ LiteralAt(s, a, <<"r", "e">>) /\ b > a + 2
       /\ Is(s, b, Letters)

\* \d+\s+[A-Z][\w.]+\s+[A-Z] (IGNORECASE)
ReporterAt(s, i) ==
    LET d == RunEnd(s, i, Digits)
        a == RunEnd(s, d, Whitespace)
        r == RunEnd(s, a + 1, WordOrDot)
        b == RunEnd(s, r, Whitespace)
    IN d > i /\ a > d /\ Is(s, a, Letters) /\ r > a + 1 /\ b > r /\ Is(s, b, Letters)

\* [A-Z][\w.]+\s*§ : the position of the section sign, -1 for no match.
StatuteSign(s, i, first) ==
    LET r == RunEnd(s, i + 1, WordOrDot)
        a == RunEnd(s, r, Whitespace)
    IN IF Is(s, i, first) /\ r > i + 1 /\ Is(s, a, {SectionSign}) THEN a ELSE -1

ShortForms == {<<"i", "d", ".">>, <<"s", "u", "p", "r", "a">>, <<"c", "f", ".">>, <<"s", "e", "e">>, <<"c", "o", "m", "p", "a", "r", "e">>, <<"a", "c", "c", "o", "r", "d">>, <<"c", "o", "n", "t", "r", "a">>, <<"b", "u", "t">>}

\* The lookahead of _SEMICOLON_BOUNDARY.
CitationStartAt(s, i) ==
    \/ CaseNameEnd(s, i, TRUE) # -1
    \/ InReAt(s, i)
    \/ ReporterAt(s, i)
    \/ StatuteSign(s, i, Letters) # -1
    \/ \E word \in ShortForms : LiteralAt(s, i, word)

\* _SEMICOLON_BOUNDARY matched at position p: the position after the match,
\* -1 for no match.
_SEMICOLON_BOUNDARY(s, p) ==
    LET e == RunEnd(s, p + 1, Whitespace) IN
    IF Is(s, p, {";"}) /\ CitationStartAt(s, e) THEN e ELSE -1

\* One match of _STRING_CITATION_INDICATORS at position i (no IGNORECASE):
\* the position after the match, -1 for no match.
IndicatorEnd(s, i) ==
    LET v == CaseNameEnd(s, i, FALSE)
        q1 == IF v = -1 THEN -1 ELSE NextOf(s, v, {";"})
        d == RunEnd(s, i, Digits)
        a == RunEnd(s, d, Whitespace)
        r == RunEnd(s, a + 1, WordOrDot)
        b == RunEnd(s, r, Whitespace)
        page == RunEnd(s, b, Digits)
        q2 == IF d > i /\ a > d /\ Is(s, a, UpperLetters) /\ r > a + 1 /\ b > r /\ page > b
              THEN NextOf(s, page, {";"}) ELSE -1
        sign == StatuteSign(s, i, UpperLetters)
        n == IF sign = -1 THEN -1 ELSE RunEnd(s, sign + 1, Whitespace)
        num == IF sign = -1 THEN -1 ELSE RunEnd(s, n, Digits \cup {"."})
        q3 == IF sign # -1 /\ num > n THEN NextOf(s, num, {";"}) ELSE -1
    IN IF q1 # -1 /\ q1 - v >= 10 /\ q1 - v <= 80 THEN q1 + 1
       ELSE IF q2 # -1 /\ q2 - page <= 80 THEN q2 + 1
       ELSE IF q3 # -1 /\ q3 - num <= 60 THEN q3 + 1
       ELSE -1

\* len(_STRING_CITATION_INDICATORS.findall(s)), scanning from p
RECURSIVE Indicators(_, _)
Indicators(s, p) ==
    LET m == First({ k \in p..(Len(s) - 1) : IndicatorEnd(s, k) # -1 }) IN
    IF m = -1 THEN 0 ELSE 1 + Indicators(s, IndicatorEnd(s, m))

_SIGNAL_WORDS == {<<"s", "e", "e">>, <<"s", "e", "e", " ", "a", "l", "s", "o">>, <<"s", "e", "e", ",", " ", "e", ".", "g", ".">>, <<"s", "e", "e", " ", "g", "e", "n", "e", "r", "a", "l", "l", "y">>, <<"c", "f", ".">>, <<"c", "o", "m", "p", "a", "r", "e">>, <<"b", "u", "t", " ", "s", "e", "e">>, <<"b", "u", "t", " ", "c", "f", ".">>, <<"a", "c", "c", "o", "r", "d">>, <<"c", "o", "n", "t", "r", "a">>, <<"e", ".", "g", ".">>}

\* StringCitationDetector._get_protected_ranges: \([^)]{0,150}\)
RECURSIVE DetectorRanges(_, _)
DetectorRanges(s, p) ==
    LET open == First({ k \in p..(Len(s) - 1) :
                          /\ s[k + 1] = "("
                          /\ NextOf(s, k + 1, {")"}) # -1
                          /\ NextOf(s, k + 1, {")"}) - k - 1 <= 150 })
    IN IF open = -1 THEN {}
       ELSE {<<open, NextOf(s, open + 1, {")"}) + 1>>}
            \cup DetectorRanges(s, NextOf(s, open + 1, {")"}) + 1)

Detector_get_protected_ranges(s) == DetectorRanges(s, 0)

is_protected(pos, protected_ranges) == \E r \in protected_ranges : r[1] <= pos /\ pos < r[2]

RECURSIVE CountBoundaries(_, _, _)
CountBoundaries(s, p, protected_ranges) ==
    LET m == First({ k \in p..(Len(s) - 1) : _SEMICOLON_BOUNDARY(s, k) # -1 }) IN
    IF m = -1 THEN 0
    ELSE (IF is_protected(m, protected_ranges) THEN 0 ELSE 1)
         + CountBoundaries(s, _SEMICOLON_BOUNDARY(s, m), protected_ranges)

_count_boundary_semicolons(s, protected_ranges) == CountBoundaries(s, 0, protected_ranges)

_min_semicolons == 1

is_likely_string_citation(text_segment) ==
    LET semicolons == _count_boundary_semicolons(text_segment,
                                                 Detector_get_protected_ranges(text_segment))
    IN IF Len(strip(text_segment)) < 20 THEN FALSE
       ELSE IF semicolons < _min_semicolons THEN FALSE
       ELSE IF Indicators(text_segment, 0) >= 2 THEN TRUE
       ELSE \E signal \in _SIGNAL_WORDS : Contains(lower(text_segment), signal) /\ semicolons >= 1

\* [.;]\s*(?=[A-Z]|\s*$) matched at position p: the position after the match,
\* -1 for no match.
sentence_pattern(s, p) ==
    LET e == RunEnd(s, p + 1, Whitespace) IN
    IF Is(s, p, {".", ";"}) /\ (e = Len(s) \/ Is(s, e, UpperLetters)) THEN e ELSE -1

RECURSIVE Sentences(_, _, _)
Sentences(s, p, start) ==
    LET m == First({ k \in p..(Len(s) - 1) : sentence_pattern(s, k) # -1 })
        end == sentence_pattern(s, m)
    IN IF m = -1 THEN (IF start < Len(s) THEN << <<start, Len(s)>> >> ELSE <<>>)
       ELSE (IF end > start THEN << <<start, end>> >> ELSE <<>>) \o Sentences(s, end, end)

_split_into_sentences(s) == Sentences(s, 0, 0)

\* The (start, end) of the sentences taken for string citations; is_string is
\* True in every tuple of the source's result.
detect_string_citations(s) ==
    IF strip(s) = <<>> THEN <<>>
    ELSE SelectSeq(_split_into_sentences(s),
                   LAMBDA sentence : is_likely_string_citation(Slice(s, sentence[1], sentence[2])))

\* StringCitationSplitter._get_protected_ranges: parentheses by depth.
RECURSIVE SplitterRanges(_, _, _, _)
SplitterRanges(s, p, paren_depth, paren_start) ==
    LET i == NextOf(s, p, {"(", ")"}) IN
    IF i = -1 THEN {}
    ELSE IF At(s, i) = "("
    THEN SplitterRanges(s, i + 1, paren_depth + 1, IF paren_depth = 0 THEN i ELSE paren_start)
    ELSE IF paren_depth - 1 = 0 /\ paren_start >= 0
         THEN {<<paren_start, i + 1>>} \cup SplitterRanges(s, i + 1, 0, -1)
         ELSE SplitterRanges(s, i + 1, paren_depth - 1, paren_start)

Splitter_get_protected_ranges(s) == SplitterRanges(s, 0, 0, -1)

RECURSIVE SplitFrom(_, _, _, _)
SplitFrom(s, p, current_start, protected_ranges) ==
    LET semicolon_pos == First({ k \in p..(Len(s) - 1) : _SEMICOLON_BOUNDARY(s, k) # -1 })
        e == _SEMICOLON_BOUNDARY(s, semicolon_pos)
    IN IF semicolon_pos = -1
       THEN (IF current_start < Len(s) /\ strip(Slice(s, current_start, Len(s))) # <<>>
             THEN <<Slice(s, current_start, Len(s))>> ELSE <<>>)
       ELSE IF is_protected(semicolon_pos, protected_ranges)
            THEN SplitFrom(s, e, current_start, protected_ranges)
            ELSE <<Slice(s, current_start, semicolon_pos)>> \o SplitFrom(s, e, e, protected_ranges)

_smart_split_on_semicolons(s, protected_ranges) == SplitFrom(s, 0, 0, protected_ranges)

\* The loop of split_string_citation over enumerate(parts); i counts from 1
\* here, position_in_string is the source's i.
RECURSIVE SegmentsFrom(_, _, _, _, _, _)
SegmentsFrom(s, parts, i, current_offset, original_start_offset, string_group_id) ==
    IF i > Len(parts) THEN <<>>
    ELSE LET part_stripped == strip(parts[i])
             found == find(s, part_stripped, current_offset)
             part_start == IF found = -1 THEN current_offset ELSE found
             part_end == part_start + Len(part_stripped)
         IN IF part_stripped = <<>>
            THEN SegmentsFrom(s, parts, i + 1, current_offset + Len(parts[i]),
                              original_start_offset, string_group_id)
            ELSE <<[text |-> part_stripped,
                    original_span |-> <<original_start_offset + part_start,
                                        original_start_offset + part_end>>,
                    string_group_id |-> string_group_id,
                    position_in_string |-> i - 1]>>
                 \o SegmentsFrom(s, parts, i + 1, part_end, original_start_offset, string_group_id)

\* The segments of one string citation; for a blank text the source raises
\* ValueError, which compile_citations catches: no segment is added.
split_string_citation_text(s, original_start_offset, string_group_id) ==
    IF strip(s) = <<>> THEN <<>>
    ELSE SegmentsFrom(s, _smart_split_on_semicolons(s, Splitter_get_protected_ranges(s)),
                      1, 0, original_start_offset, string_group_id)

StringGroupNames == <<"string_group_0", "string_group_1", "string_group_2", "string_group_3",
                      "string_group_4", "string_group_5">>

\* The texts: up to MaxCitations citations, each after a signal or none,
\* joined by "; ", with or without the final period.
SmithJones == <<"S", "m", "i", "t", "h", " ", "v", ".", " ", "J", "o", "n", "e", "s", ",", " ", "1", "2", "3", " ", "F", ".", "3", "d", " ", "4", "5", " ", "(", "9", "t", "h", " ", "C", "i", "r", ".", " ", "1", "9", "9", "7", ")">>
DoeRoe == <<"D", "o", "e", " ", "v", ".", " ", "R", "o", "e", ",", " ", "1", " ", "F", ".", "3", "d", " ", "1", " ", "(", "1", "s", "t", " ", "C", "i", "r", ".", " ", "1", "9", "9", "0", ")">>
ReporterOnly == <<"1", "2", "3", " ", "F", ".", "3", "d", " ", "4", "5", " ", "(", "9", "t", "h", " ", "C", "i", "r", ".", " ", "1", "9", "9", "7", ")">>
IdAt == <<"i", "d", ".", " ", "a", "t", " ", "5">>

Signals == {<<>>, <<"s", "e", "e", " ">>, <<"S", "e", "e", " ">>}

Citations == { signal \o cite : signal \in Signals, cite \in {SmithJones, DoeRoe, ReporterOnly, IdAt} }

RECURSIVE Join(_)
Join(cites) ==
    IF cites = <<>> THEN <<>>
    ELSE IF Len(cites) = 1 THEN cites[1]
    ELSE cites[1] \o <<";", " ">> \o Join(Tail(cites))

Texts ==
    { Join(cites) \o end : cites \in UNION { [1..n -> Citations] : n \in 1..MaxCitations },
                           end \in { <<>>, <<".">> } } \cup { <<>> }

InitString ==
    /\ text \in Texts
    /\ string_citation_spans = <<>>
    /\ string_group_counter = 0
    /\ pc = "detecting"
    /\ doc = <<>>
    /\ has_string = FALSE
    /\ all_segments = <<>>
    /\ seg_i = 1
    /\ all_resolutions = <<>>
    /\ all_segment_metadata = <<>>
    /\ adjusted_spans = <<>>
    /\ bucket_i = 1
    /\ citation_db = <<>>
    /\ state_tasks = <<>>
    /\ secondary = [full_citations |-> <<>>, resolved_shorts |-> <<>>]
    /\ raised = "None"
    /\ NoOtherVars

\* Step 1.
Detect ==
    /\ pc = "detecting"
    /\ string_citation_spans' = detect_string_citations(text)
    /\ pc' = IF string_citation_spans' = <<>> THEN "split" ELSE "splitting"
    /\ UNCHANGED <<text, string_group_counter, doc, has_string, all_segments, seg_i,
                   all_resolutions, all_segment_metadata, adjusted_spans, bucket_i,
                   citation_db, state_tasks, secondary, raised>>
    /\ UNCHANGED other_vars

\* Step 2, one turn of the loop over the detected spans.
Split ==
    /\ pc = "splitting"
    /\ string_group_counter < Len(string_citation_spans)
    /\ LET span == string_citation_spans[string_group_counter + 1]
           group_id == StringGroupNames[string_group_counter + 1]
       IN all_segments' = all_segments \o
              split_string_citation_text(Slice(text, span[1], span[2]), span[1], group_id)
    /\ string_group_counter' = string_group_counter + 1
    /\ pc' = IF string_group_counter' = Len(string_citation_spans) THEN "split" ELSE "splitting"
    /\ UNCHANGED <<text, string_citation_spans, doc, has_string, seg_i, all_resolutions,
                   all_segment_metadata, adjusted_spans, bucket_i, citation_db, state_tasks,
                   secondary, raised>>
    /\ UNCHANGED other_vars

NextString == Detect \/ Split

SpecString == InitString /\ [][NextString]_vars

(* ---------------------------------------------------------------------- *)
(* Properties of the returned database                                     *)
(* ---------------------------------------------------------------------- *)
\* compile_citations has returned its database.
Returned == pc = "done"

\* The citation tokens the tokenizer finds in the document.
Tokens == { t \in DOMAIN doc : IsToken(t) }

\* The occurrences of the database, as (key, place) pairs.
OccurrencesOf(db) ==
    UNION { { <<k, i>> : i \in DOMAIN db[k].occurrences } : k \in DOMAIN db }

\* The occurrences the bucket loop added (the secondary step adds its own
\* with index -1).
TokenizerOccurrences(db) == { o \in OccurrencesOf(db) : db[o[1]].occurrences[o[2]].index # NoIndex }

\* C1: when compile_citations returns, the number of occurrences over all
\* entries equals the number of citation tokens the tokenizer finds in the
\* document, with or without string citations and whether or not resolution
\* fails.
C1_EveryTokenHasAnOccurrence ==
    Returned => Cardinality(TokenizerOccurrences(citation_db)) = Cardinality(Tokens)

\* C2: compile_citations never raises because a verification provider
\* raised while one bucket was verified.
C2_NoProviderExceptionEscapes == raised # "verifier"

\* The full secondary citations of the document; none overlaps a tokenizer span.
FullSecondaries == { t \in DOMAIN doc : doc[t].kind = "secfull" }

\* C3: on every path to the return the secondary step has run, so every full
\* secondary citation of the document has an entry in the returned database.
C3_SecondaryEntriesOnEveryPath ==
    Returned => \A t \in FullSecondaries : to_resource_key(t) \in DOMAIN citation_db

StatusVocabulary == {"verified", "warning", "no_match", "pending", "error"}

\* C4: every entry of the returned database has a status out of verified,
\* warning, no_match, pending, error.
C4_StatusInVocabulary ==
    Returned => \A k \in DOMAIN citation_db : citation_db[k].status \in StatusVocabulary

\* C5: all background tasks are awaited and their results patched in before
\* the return, so no entry of the returned database is still pending.
C5_NoPendingEntryReturned ==
    Returned => \A k \in DOMAIN citation_db : citation_db[k].status # "pending"

(* ---------------------------------------------------------------------- *)
(* Background tasks                                                        *)
(* ---------------------------------------------------------------------- *)
AsyncFailed == Result("error", "state_law_async_failed", "None")

RaisedTasks(tasks) == { i \in DOMAIN tasks : tasks[i].thread = "raised" }

TasksOf(tasks, k) == { i \in DOMAIN tasks : tasks[i].resource_key = k }

\* The entry carries what the task returned.
PatchedWith(entry, task) ==
    /\ entry.status = task.result.status
    /\ entry.substatus = task.result.substatus
    /\ entry.verification_details = task.result.details

\* C6: a background task whose verifier raises yields error /
\* state_law_async_failed; the step leaves the other tasks and the database
\* alone, nothing is raised, and the merge-back that follows finds every task
\* completed, gives the entry of each task that task's own result and leaves
\* the entries without a task as they were.
C6_TaskExceptionStaysLocal ==
    [][ (pc = "awaiting") =>
          /\ raised' = "None"
          /\ pc' \in {"awaiting", "secondary"}
          /\ \A i \in RaisedTasks(state_tasks') : state_tasks'[i].result = AsyncFailed
          /\ \A i \in RaisedTasks(state_tasks') \ RaisedTasks(state_tasks) :
                /\ citation_db' = citation_db
                /\ \A j \in DOMAIN state_tasks \ {i} : state_tasks'[j] = state_tasks[j]
          /\ (pc' = "secondary" /\ RaisedTasks(state_tasks) # {}) =>
                /\ \A i \in DOMAIN state_tasks : state_tasks[i].state = "done"
                /\ DOMAIN citation_db' = DOMAIN citation_db
                /\ \A k \in DOMAIN citation_db :
                      IF TasksOf(state_tasks, k) = {}
                      THEN citation_db'[k] = citation_db[k]
                      ELSE \A i \in TasksOf(state_tasks, k) :
                              PatchedWith(citation_db'[k], state_tasks[i])
      ]_vars

\* One task raised and another returned "verified"; both entries are patched.
C6_Witness ==
    /\ Returned
    /\ \E i, j \in DOMAIN state_tasks :
         /\ state_tasks[i].thread = "raised"
         /\ state_tasks[j].thread = "returned"
         /\ state_tasks[i].resource_key \in DOMAIN citation_db
         /\ state_tasks[j].resource_key \in DOMAIN citation_db
         /\ citation_db[state_tasks[i].resource_key].status = "error"
         /\ citation_db[state_tasks[i].resource_key].substatus = "state_law_async_failed"
         /\ citation_db[state_tasks[j].resource_key].status = "verified"

\* C7: an exception raised during segmentation, tokenization or resolution
\* is absorbed: the tokenizer's exception never leaves compile_citations.
C7_TokenizerFailuresAbsorbed == raised # "get_citations"

\* C8: the database is written by the orchestrating coroutine only: a step
\* that changes it is no step of a background task and is taken while no
\* task is running, and the merge-back writes follow the completion of every
\* task.
C8_SingleWriter ==
    [][ (citation_db' # citation_db) =>
          /\ \A i \in DOMAIN state_tasks :
                /\ state_tasks[i].state # "running"
                /\ state_tasks'[i] = state_tasks[i]
          /\ (pc = "awaiting") => \A i \in DOMAIN state_tasks : state_tasks[i].state = "done"
      ]_vars

\* Two tasks have run and the merge-back has written both results.
C8_Witness ==
    /\ pc = "secondary"
    /\ Len(state_tasks) >= 2
    /\ \A i \in DOMAIN state_tasks :
         /\ state_tasks[i].state = "done"
         /\ state_tasks[i].resource_key \in DOMAIN citation_db
         /\ PatchedWith(citation_db[state_tasks[i].resource_key], state_tasks[i])
         /\ citation_db[state_tasks[i].resource_key].substatus # "state_law_verification_pending"

(* ---------------------------------------------------------------------- *)
(* Id. citations                                                           *)
(* ---------------------------------------------------------------------- *)
CaseItems == { t \in DOMAIN doc : doc[t].kind = "case" }

\* The Id. citations whose nearest full citation before them is c.
IdsAfter(c) ==
    { t \in DOMAIN doc : /\ doc[t].kind = "id"
                          /\ c < t
                          /\ \A u \in (c + 1)..(t - 1) : ~(IsToken(u) /\ IsFullCitation(u)) }

\* The tokenizer resolved the citations (no raw fallback).
Resolved == \A b \in DOMAIN all_resolutions : all_resolutions[b].resource.tag = "ResourceKey"

OccurrenceObjects(entry) == { entry.occurrences[i].citation_obj : i \in DOMAIN entry.occurrences }

\* C9: without a string citation, a document with one full case citation and
\* an Id. the tokenizer resolves to it yields exactly one case entry, whose
\* occurrences are the full citation and the Id.; no other entry holds the Id.
C9_IdJoinsTheCaseEntry ==
    (Returned /\ ~has_string /\ Resolved /\ Cardinality(CaseItems) = 1) =>
        LET c == CHOOSE t \in CaseItems : TRUE
            ids == IdsAfter(c)
            k == _resource_identifier(_bind_full_citation(c))
        IN ids # {} =>
             /\ k \in DOMAIN citation_db
             /\ citation_db[k].type = "case"
             /\ OccurrenceObjects(citation_db[k]) = {c} \cup ids
             /\ Len(citation_db[k].occurrences) = 1 + Cardinality(ids)
             /\ \A k2 \in DOMAIN citation_db \ {k} :
                   /\ citation_db[k2].type # "case"
                   /\ OccurrenceObjects(citation_db[k2]) \cap ids = {}

\* "Brown v. Board ... Id." has been compiled.
C9_Witness ==
    /\ Returned /\ ~has_string /\ Resolved
    /\ Len(doc) >= 2 /\ doc[1].kind = "case" /\ doc[2].kind = "id"
    /\ _resource_identifier(_bind_full_citation(1)) \in DOMAIN citation_db
    /\ Len(citation_db[_resource_identifier(_bind_full_citation(1))].occurrences) = 2

\* Every citation the secondary resolver looks back at: the occurrences of
\* the tokenizer and the full secondary citations.
LookBack ==
    { [end |-> citation_db[o[1]].occurrences[o[2]].span[2], secondary |-> FALSE] :
        o \in TokenizerOccurrences(citation_db) }
      \cup { [end |-> secondary.full_citations[i].span[2], secondary |-> TRUE] :
               i \in DOMAIN secondary.full_citations }

\* Of those that end at or before position, the ones that end last.
NearestBefore(position) ==
    LET before == { c \in LookBack : c.end <= position } IN
    { c \in before : \A d \in before : d.end <= c.end }

FollowsNonSecondary(short) ==
    /\ NearestBefore(short.span[1]) # {}
    /\ \A c \in NearestBefore(short.span[1]) : ~c.secondary

\* C10: an Id. short form of the secondary detector whose nearest preceding
\* citation is no secondary source is marked non_secondary and adds neither
\* an entry nor an occurrence to the database.
C10_NonSecondaryShortsExcluded ==
    Returned =>
        \A i \in DOMAIN secondary.resolved_shorts :
            LET short == secondary.resolved_shorts[i] IN
            FollowsNonSecondary(short) =>
                /\ short.source_type = "non_secondary"
                /\ to_resource_key(short.cite) \notin DOMAIN citation_db
                /\ \A o \in OccurrencesOf(citation_db) \ TokenizerOccurrences(citation_db) :
                      citation_db[o[1]].occurrences[o[2]].citation_obj # short.cite

\* An Id. behind the string citation follows a case citation inside it.
C10_Witness ==
    /\ Returned
    /\ \E i \in DOMAIN secondary.resolved_shorts :
         /\ FollowsNonSecondary(secondary.resolved_shorts[i])
         /\ secondary.resolved_shorts[i].source_type = "non_secondary"
         /\ \E k \in DOMAIN citation_db : citation_db[k].type = "case"

(* ---------------------------------------------------------------------- *)
(* Detection and splitting of string citations                             *)
(* ---------------------------------------------------------------------- *)
\* The segments split out of the g-th detected span, in position order.
SegmentsOfSpan(g) ==
    SelectSeq(all_segments, LAMBDA segment : segment.string_group_id = StringGroupNames[g])

Partitions(span, segments) ==
    /\ segments # <<>>
    /\ segments[1].original_span[1] = span[1]
    /\ segments[Len(segments)].original_span[2] = span[2]
    /\ \A i \in 1..(Len(segments) - 1) :
          segments[i + 1].original_span[1] = segments[i].original_span[2]

\* C12: the spans of the segments split out of a string-citation span, in
\* position order, partition that span: the first starts at its start, each
\* starts where the one before ends, and the last ends at its end.
C12_SegmentsPartitionTheSpan ==
    pc = "split" =>
        \A g \in DOMAIN string_citation_spans :
           Partitions(string_citation_spans[g], SegmentsOfSpan(g))

\* The sentences made of two full case citations and one semicolon.
TwoCaseSentences ==
    { a \o <<";", " ">> \o b \o <<".">> : a \in {SmithJones, DoeRoe}, b \in {SmithJones, DoeRoe} }

\* C13: a sentence of two full case citations separated by one boundary
\* semicolon is detected as one string citation and split into exactly two
\* segments.
C13_TwoCaseSentenceIsOneString ==
    (pc = "split" /\ text \in TwoCaseSentences) =>
        /\ Len(string_citation_spans) = 1
        /\ Len(all_segments) = 2

(* ---------------------------------------------------------------------- *)
(* Structure of the database                                               *)
(* ---------------------------------------------------------------------- *)
\* The resource keys of a database with, for each, the spans of its
\* occurrences in order.
Structure(db) ==
    [k \in DOMAIN db |-> [i \in DOMAIN db[k].occurrences |-> db[k].occurrences[i].span]]

\* The database the text alone determines: every bucket of the resolution
\* map stored with one and the same verification result, then the secondary
\* step with one and the same catalogue answer; empty on the early return.
RECURSIVE TextEntries(_, _)
TextEntries(resolutions, db) ==
    IF resolutions = <<>> THEN db
    ELSE LET bucket == Head(resolutions) IN
         IF bucket.cites = <<>> THEN TextEntries(Tail(resolutions), db)
         ELSE TextEntries(Tail(resolutions),
                          Put(db, _resource_identifier(bucket.resource),
                              NewEntry(EntryType(bucket), Result("verified", "None", "None"),
                                       PrimaryFull(bucket.cites),
                                       Occurrences(bucket.cites, all_segment_metadata,
                                                   adjusted_spans))))

TextDatabase ==
    IF ~AnyCites(all_resolutions) THEN <<>>
    ELSE _process_secondary_citations(TextEntries(all_resolutions, <<>>), "high").citation_db

\* C15: the resource keys of the returned database and the list of
\* occurrence spans under each key are those the text determines, whatever
\* the providers answered and in whatever order the background tasks ended;
\* two compilations of the same text that return agree on them.
C15_StructureIndependentOfVerification ==
    Returned => Structure(citation_db) = Structure(TextDatabase)

\* Two state statutes whose background tasks ended differently, one in an
\* error and one verified, both in the returned database.
C15_Witness ==
    /\ Returned
    /\ Len(state_tasks) = 2
    /\ state_tasks[1].result.status = "error"
    /\ state_tasks[2].result.status = "verified"
    /\ Cardinality(DOMAIN citation_db) = 2

(* ---------------------------------------------------------------------- *)
(* State statutes without credentials                                      *)
(* ---------------------------------------------------------------------- *)
\* C14: a state statute verified with no research-assistant credentials
\* configured gets status "error" and substatus "missing_credentials", and
\* no exception leaves the verifier.
C14_MissingCredentialsReported ==
    \A i \in DOMAIN state_tasks :
       (state_tasks[i].state = "done" /\ state_tasks[i].api_key = "") =>
           /\ state_tasks[i].thread = "returned"
           /\ state_tasks[i].result.status = "error"
           /\ state_tasks[i].result.substatus = "missing_credentials"

(* ---------------------------------------------------------------------- *)
(* Documents with a string citation                                        *)
(* ---------------------------------------------------------------------- *)
\* The segment a token lies in, by the place of the segment in the string.
SegmentPosition(t) == IF doc[t].region = "seg0" THEN 0 ELSE 1

\* C16: when a string citation is detected, the full citations outside the
\* string-citation span still go through the tokenizer flow and have an
\* occurrence in the returned database.
C16_OutsideTextStillTokenized ==
    (Returned /\ has_string) =>
        \A t \in DOMAIN doc :
           (IsToken(t) /\ IsFullCitation(t) /\ doc[t].region = "out") =>
               \E k \in DOMAIN citation_db : t \in OccurrenceObjects(citation_db[k])

\* The occurrences built from the tokens of the string-citation segments.
SegmentOccurrences ==
    { o \in UNION { { citation_db[k].occurrences[i] : i \in DOMAIN citation_db[k].occurrences } :
                    k \in DOMAIN citation_db } :
        o.index # NoIndex /\ doc[o.citation_obj].region \in {"seg0", "seg1"} }

\* C17: the span stored in the occurrence of a segment token is the token's
\* span inside its segment shifted by the start offset of that segment.
C17_SpanShiftedByOwnSegment ==
    \A o \in SegmentOccurrences :
       LET t == o.citation_obj
           segment == CitationSegment(doc[t].region, SegmentPosition(t))
       IN o.span = <<segment.original_span[1] + get_span(t)[1],
                     segment.original_span[1] + get_span(t)[2]>>

\* C18: the occurrence of a segment token carries the string_group_id and
\* the position_in_string of the segment the token was found in, whatever
\* the tokenizer index of the token.
C18_OccurrenceCarriesItsSegment ==
    \A o \in SegmentOccurrences :
       LET t == o.citation_obj
           segment == CitationSegment(doc[t].region, SegmentPosition(t))
       IN /\ o.string_group_id = segment.string_group_id
          /\ o.position_in_string = segment.position_in_string

(* ---------------------------------------------------------------------- *)
(* String-local correction                                                 *)
(* ---------------------------------------------------------------------- *)
\* The citation tokens that lie in a segment of the string citation.
SegmentTokens == { t \in DOMAIN doc : IsToken(t) /\ doc[t].region \in {"seg0", "seg1"} }

\* C11: for a string group whose only member is a single citation token,
\* _resolve_string_local_shorts leaves every bucket of the resolution map
\* with the tokens it had.
C11_SingleMemberGroupUntouched ==
    [][ (pc = "correcting" /\ Cardinality(SegmentTokens) = 1) =>
            all_resolutions' = all_resolutions ]_vars

\* The only token of the string citation is a short form (kept by the raw
\* fallback) and the correction has run.
C11_Witness ==
    /\ pc = "verifying"
    /\ Cardinality(SegmentTokens) = 1
    /\ \E t \in SegmentTokens :
         /\ doc[t].kind = "short"
         /\ \E b \in DOMAIN all_resolutions : all_resolutions[b].cites = <<t>>

InBucket(resolutions, b, t) ==
    b \in DOMAIN resolutions /\ \E i \in DOMAIN resolutions[b].cites : resolutions[b].cites[i] = t

\* C20: string-local correction moves a short form only into a bucket that
\* holds a full citation of the same string group whose position_in_string
\* is strictly smaller than that of the moved token.
C20_MovesOnlyToEarlierFull ==
    [][ pc = "correcting" =>
          \A t \in SegmentTokens : \A b \in DOMAIN all_resolutions' :
             (InBucket(all_resolutions', b, t) /\ ~InBucket(all_resolutions, b, t)) =>
                 \E f \in SegmentTokens :
                    /\ IsFullCitation(f)
                    /\ InBucket(all_resolutions, b, f)
                    /\ SegmentPosition(f) < SegmentPosition(t) ]_vars

(* ---------------------------------------------------------------------- *)
(* Database keys                                                           *)
(* ---------------------------------------------------------------------- *)
\* C19: two different resource buckets never get the same database key, and
\* in the returned database the entry under a bucket's key holds the
\* occurrences of that bucket's tokens.
C19_OneEntryPerBucket ==
    /\ \A a, b \in DOMAIN all_resolutions :
          a # b => _resource_identifier(all_resolutions[a].resource) #
                   _resource_identifier(all_resolutions[b].resource)
    /\ Returned =>
          \A b \in DOMAIN all_resolutions :
             LET bucket == all_resolutions[b]
                 resource_key == _resource_identifier(bucket.resource)
             IN bucket.cites # <<>> =>
                   /\ resource_key \in DOMAIN citation_db
                   /\ \A i \in DOMAIN bucket.cites :
                         bucket.cites[i] \in OccurrenceObjects(citation_db[resource_key])

(* ---------------------------------------------------------------------- *)
(* Id and supra tokens of a string group                                   *)
(* ---------------------------------------------------------------------- *)
\* The nearest full citation token of the string group that stands before
\* token t in the text; 0 for none.
NearestPrecedingFull(t) ==
    LET fulls == { f \in SegmentTokens : IsFullCitation(f) /\ f < t }
    IN IF fulls = {} THEN 0 ELSE CHOOSE f \in fulls : \A g \in fulls : g <= f

\* C21: once the string-local correction has run, an id or supra token of a
\* string group that has a full citation token before it lies in the bucket
\* that holds the nearest preceding full citation token of the group.
C21_IdJoinsNearestPrecedingFull ==
    pc = "verifying" =>
       \A t \in SegmentTokens :
          (_ctype(t) \in {"IdCitation", "SupraCitation"} /\ NearestPrecedingFull(t) # 0) =>
             \E b \in DOMAIN all_resolutions :
                /\ InBucket(all_resolutions, b, t)
                /\ InBucket(all_resolutions, b, NearestPrecedingFull(t))

(* ---------------------------------------------------------------------- *)
(* Short case citations and first party names                              *)
(* ---------------------------------------------------------------------- *)
\* The first party of a case name: the characters before " v. ".
FirstParty(name) ==
    LET at == { i \in 1..(Len(name) - 3) : SubSeq(name, i, i + 3) = <<" ", "v", ".", " ">> }
    IN IF at = {} THEN name ELSE SubSeq(name, 1, (CHOOSE i \in at : \A j \in at : i <= j) - 1)

\* The full case citations of the string group that stand before token t,
\* are in a bucket, and whose first party is the name of the short form t.
NamedBefore(t) ==
    { f \in SegmentTokens : /\ f < t
                            /\ _ctype(f) = "FullCaseCitation"
                            /\ \E b \in DOMAIN all_resolutions : InBucket(all_resolutions, b, f)
                            /\ FirstParty(get_case_name(f)) = antecedent_guess(t) }

\* C22: a short case citation that the correction finds in a bucket, and
\* whose name is the first party of a full case citation that stands before
\* it in the string group and is in a bucket too, lies in the bucket of such
\* a full citation when the correction is done, whatever letters the name
\* contains.
C22_ShortJoinsFullOfItsFirstParty ==
    [][ pc = "correcting" =>
          \A t \in SegmentTokens :
             ( /\ _ctype(t) = "ShortCaseCitation"
               /\ \E b \in DOMAIN all_resolutions : InBucket(all_resolutions, b, t)
               /\ NamedBefore(t) # {} ) =>
                  \E f \in NamedBefore(t) : \E b \in DOMAIN all_resolutions' :
                     InBucket(all_resolutions', b, t) /\ InBucket(all_resolutions', b, f) ]_vars

(* ---------------------------------------------------------------------- *)
(* Token conservation                                                      *)
(* ---------------------------------------------------------------------- *)
\* How many times token t stands in the buckets of a resolution map.
CountIn(resolutions, t) ==
    Cardinality({ <<b, i>> \in (DOMAIN resolutions) \X (1..MaxTokens + 1) :
                     i \in DOMAIN resolutions[b].cites /\ resolutions[b].cites[i] = t })

RECURSIVE TotalCount(_)
TotalCount(resolutions) ==
    IF resolutions = <<>> THEN 0
    ELSE Len(Head(resolutions).cites) + TotalCount(Tail(resolutions))

\* C23: _resolve_string_local_shorts conserves tokens. When every token
\* stands at most once in the resolution map before the call, every token
\* stands in it as often after the call as before, the total count is the
\* same, and a token that is in a new bucket after the call has left the
\* bucket it was in.
C23_CorrectionConservesTokens ==
    [][ (pc = "correcting" /\ \A t \in DOMAIN doc : CountIn(all_resolutions, t) <= 1) =>
          /\ \A t \in DOMAIN doc : CountIn(all_resolutions', t) = CountIn(all_resolutions, t)
          /\ TotalCount(all_resolutions') = TotalCount(all_resolutions)
          /\ \A t \in DOMAIN doc : \A b \in DOMAIN all_resolutions' :
                (InBucket(all_resolutions', b, t) /\ ~InBucket(all_resolutions, b, t)) =>
                    \A a \in DOMAIN all_resolutions :
                       InBucket(all_resolutions, a, t) => ~InBucket(all_resolutions', a, t) ]_vars

\* The correction has moved the short form of the second segment out of its
\* raw bucket into the bucket of the full citation of the first segment.
C23_Witness ==
    /\ pc = "verifying"
    /\ Len(doc) = 2
    /\ doc[1] = [kind |-> "case", region |-> "seg0"]
    /\ doc[2] = [kind |-> "short", region |-> "seg1"]
    /\ \E b \in DOMAIN all_resolutions : all_resolutions[b].cites = <<1, 2>>
    /\ \E a \in DOMAIN all_resolutions :
          all_resolutions[a].resource = RawResource(0) /\ all_resolutions[a].cites = <<>>

(* ---------------------------------------------------------------------- *)
(* Raw fallback buckets                                                    *)
(* ---------------------------------------------------------------------- *)
\* The database keys raw:<index> of the raw fallback.
RawKeys == { RawResource(n).id_tuple : n \in 0..(Len(RawNames) - 1) }

\* C24: in the returned database no entry under a raw fallback key
\* raw:<index> holds more than one occurrence, also when the resolution step
\* has failed in several segments of the document.
C24_RawEntriesAreSingletons ==
    Returned =>
       \A resource_key \in DOMAIN citation_db :
          resource_key \in RawKeys => Len(citation_db[resource_key].occurrences) <= 1

(* ---------------------------------------------------------------------- *)
(* Unresolved secondary short forms                                        *)
(* ---------------------------------------------------------------------- *)
\* The nearest citation of the returned database that ends at or before the
\* start of the short form c is a non-secondary one.
PrecededByNonSecondary(c) ==
    \E p \in _find_preceding_citation(c.span[1], DatabaseSpans(citation_db)) : p.type # "secondary"

\* C25: every secondary short form that was detected and could not be
\* resolved, other than an Id. whose nearest preceding citation is
\* non-secondary, has a stub entry with status warning and substatus
\* short_form_unresolved in the returned database; this includes an Id. that
\* no citation precedes.
C25_UnresolvedShortGetsStub ==
    Returned =>
       \A i \in DOMAIN secondary.resolved_shorts :
          LET c == secondary.resolved_shorts[i] IN
          (c.antecedent_key = <<>> /\ ~PrecededByNonSecondary(c)) =>
             \E resource_key \in DOMAIN citation_db :
                /\ citation_db[resource_key].status = "warning"
                /\ citation_db[resource_key].substatus = "short_form_unresolved"
                /\ c.cite \in OccurrenceObjects(citation_db[resource_key])

(* ---------------------------------------------------------------------- *)
(* Steps 1 and 2 on texts with parentheticals                              *)
(* ---------------------------------------------------------------------- *)
\* The texts: a reporter citation, after an enumeration mark or none, with
\* or without a stray closing parenthesis behind it, with or without an
\* explanatory parenthetical, with or without a further citation, with or
\* without the final period.
ParenLeads == { <<>>, <<"a", ")", " ">>, <<"(", "a", ")", " ">> }
Strays == { <<>>, <<")">> }
Parentheticals == { <<>>, <<" ", "(", "c", "i", "t", "i", "n", "g", " ", "1", " ", "F", ".", "3", "d", " ", "1", ";", " ", "s", "e", "e", " ", "2", " ", "F", ".", "3", "d", " ", "2", ")">>, <<" ", "(", "c", "i", "t", "i", "n", "g", " ", "1", " ", "F", ".", "3", "d", " ", "1", ")">> }
FurtherCitations == { <<>>, <<";", " ", "s", "e", "e", " ", "a", "l", "s", "o", " ", "1", "2", "4", " ", "F", ".", "3", "d", " ", "4", "5">>, <<";", " ">> \o DoeRoe }

ParenTexts ==
    { lead \o ReporterOnly \o stray \o parenthetical \o further \o end :
         lead \in ParenLeads, stray \in Strays, parenthetical \in Parentheticals,
         further \in FurtherCitations, end \in { <<>>, <<".">> } }

InitParens ==
    /\ text \in ParenTexts
    /\ string_citation_spans = <<>>
    /\ string_group_counter = 0
    /\ pc = "detecting"
    /\ doc = <<>>
    /\ has_string = FALSE
    /\ all_segments = <<>>
    /\ seg_i = 1
    /\ all_resolutions = <<>>
    /\ all_segment_metadata = <<>>
    /\ adjusted_spans = <<>>
    /\ bucket_i = 1
    /\ citation_db = <<>>
    /\ state_tasks = <<>>
    /\ secondary = [full_citations |-> <<>>, resolved_shorts |-> <<>>]
    /\ raised = "None"
    /\ NoOtherVars

SpecParens == InitParens /\ [][NextString]_vars

(* ---------------------------------------------------------------------- *)
(* Parentheticals                                                          *)
(* ---------------------------------------------------------------------- *)
\* Position k of s lies in parenthetical content: the nearest parenthesis
\* before it opens, the nearest one behind it closes.
InParenthetical(s, k) ==
    /\ \E a \in 0..(k - 1) :
          At(s, a) = "(" /\ \A j \in (a + 1)..(k - 1) : At(s, j) \notin {"(", ")"}
    /\ \E b \in (k + 1)..(Len(s) - 1) :
          At(s, b) = ")" /\ \A j \in (k + 1)..(b - 1) : At(s, j) \notin {"(", ")"}

\* C26: when the string citations of the text are split, every semicolon of
\* a string citation that lies in parenthetical content is inside one
\* segment: no split is made there, also when a stray closing parenthesis
\* stands before the parenthetical.
C26_NoSplitInsideParenthetical ==
    pc = "split" =>
       \A g \in DOMAIN string_citation_spans :
          \A k \in string_citation_spans[g][1]..(string_citation_spans[g][2] - 1) :
             (At(text, k) = ";" /\ InParenthetical(text, k)) =>
                \E n \in DOMAIN all_segments :
                   /\ all_segments[n].original_span[1] <= k
                   /\ k < all_segments[n].original_span[2]

(* ---------------------------------------------------------------------- *)
(* Provider calls on their own                                             *)
(* ---------------------------------------------------------------------- *)
\* The JSON object the state law model answers with: its status text, the
\* closest citation and the confidence, in hundredths; "null" and
\* NoConfidence stand for a key that is null or missing.
NoConfidence == -1

Confidences == {NoConfidence, 0, 30, 49, 50, 84, 85, 100}

ManifestStatuses == {"verified", "warning", "no_match", "error", "null"}

Manifests ==
    [status : ManifestStatuses, citation : {"null", "Cal. Penal Code 187"}, confidence : Confidences]

\* verify_state_law_citation from the parsed manifest on: `x or default`
\* replaces a null, an empty and a zero value.
verify_state_law_citation_manifest(manifest) ==
    LET status == IF manifest.status = "null" THEN "error" ELSE manifest.status
        citation == IF manifest.citation = "null" THEN "None" ELSE manifest.citation
        confidence == IF manifest.confidence = 0 THEN NoConfidence ELSE manifest.confidence
    IN Result(status, [closest_match |-> citation, confidence |-> confidence], "None")

\* What a provider is asked with, and what comes back to it.
ProviderResponses ==
    { [provider |-> "state", answer |-> m] : m \in Manifests } \cup
    { [provider |-> "journal", answer |-> r] : r \in JournalResponses }

InitVerifiers ==
    /\ response \in ProviderResponses
    /\ validation = "None"
    /\ NoScholar
    /\ NoPayments
    /\ pc = "calling"
    /\ doc = <<>>
    /\ has_string = FALSE
    /\ all_segments = <<>>
    /\ seg_i = 1
    /\ all_resolutions = <<>>
    /\ all_segment_metadata = <<>>
    /\ adjusted_spans = <<>>
    /\ bucket_i = 1
    /\ citation_db = <<>>
    /\ state_tasks = <<>>
    /\ secondary = [full_citations |-> <<>>, resolved_shorts |-> <<>>]
    /\ raised = "None"
    /\ NoText

VerifyStateLaw ==
    /\ pc = "calling"
    /\ response.provider = "state"
    /\ validation' = verify_state_law_citation_manifest(response.answer)
    /\ pc' = "returned"
    /\ UNCHANGED <<doc, has_string, all_segments, seg_i, all_resolutions, all_segment_metadata,
                   adjusted_spans, bucket_i, citation_db, state_tasks, secondary, raised,
                   text, string_citation_spans, string_group_counter, response,
                   scholar_vars, payment_vars>>

VerifyJournal ==
    /\ pc = "calling"
    /\ response.provider = "journal"
    /\ validation' = verify_journal_citation(response.answer)
    /\ pc' = "returned"
    /\ UNCHANGED <<doc, has_string, all_segments, seg_i, all_resolutions, all_segment_metadata,
                   adjusted_spans, bucket_i, citation_db, state_tasks, secondary, raised,
                   text, string_citation_spans, string_group_counter, response,
                   scholar_vars, payment_vars>>

NextVerifiers == VerifyStateLaw \/ VerifyJournal

SpecVerifiers == InitVerifiers /\ [][NextVerifiers]_vars

\* The status that the confidence of a verdict stands for.
StatusOfConfidence(confidence) ==
    IF confidence >= 85 THEN "verified"
    ELSE IF confidence >= 50 THEN "warning"
    ELSE "no_match"

\* C27: the status returned for a state law verdict is the one its
\* confidence stands for: verified from 0.85 on, warning from 0.50 to 0.85,
\* no_match below 0.50, whatever status text the verdict carries.
C27_StatusFollowsConfidence ==
    (pc = "returned" /\ response.provider = "state"
       /\ response.answer.confidence # NoConfidence) =>
          validation.status = StatusOfConfidence(response.answer.confidence)

\* C28: when the OpenAlex lookup and the Semantic Scholar search of a journal
\* citation have both failed (transport error, rejected or rate-limited
\* query, server error), verify_journal_citation returns the status error
\* with a substatus that names the failure.
C28_FailedLookupsReportError ==
    (pc = "returned" /\ response.provider = "journal"
       /\ response.answer.openalex = "error"
       /\ response.answer.scholar \in {"4xx", "5xx", "HTTPError"}) =>
          /\ validation.exc = "None"
          /\ validation.status = "error"
          /\ validation.substatus \in {"openalex http error", "semantic scholar http error",
                                       "semantic scholar query rejected"}

(* ---------------------------------------------------------------------- *)
(* The Semantic Scholar search loops                                       *)
(* ---------------------------------------------------------------------- *)
MAX_RETRIES == 5

\* the literal of `attempt < 3` in the volume/page search
VOLUME_RETRIES == 3

\* Requests of one query that are followed, and queries of one search.
MaxRequests == 8

MaxQueries == 2

\* What one client.get brings: a transport failure, or a response with its
\* status code and, for 200, its body.
Answers ==
    { [transport |-> "HTTPError", status_code |-> 0, body |-> "None"] } \cup
    { [transport |-> "ok", status_code |-> 200, body |-> b] : b \in {"match", "empty", "bad_json"} } \cup
    { [transport |-> "ok", status_code |-> c, body |-> "None"] : c \in {204, 404, 429, 500} }

\* The search that runs: by title, or by volume and page with its queries.
ScholarSearches ==
    { [search |-> "title", queries |-> 1] } \cup
    { [search |-> "volume", queries |-> n] : n \in 1..MaxQueries }

InitScholar ==
    /\ response \in ScholarSearches
    /\ validation = "None"
    /\ attempt = 0
    /\ requests = 0
    /\ query_i = 1
    /\ last_client_error = "None"
    /\ NoPayments
    /\ pc = "requesting"
    /\ doc = <<>>
    /\ has_string = FALSE
    /\ all_segments = <<>>
    /\ seg_i = 1
    /\ all_resolutions = <<>>
    /\ all_segment_metadata = <<>>
    /\ adjusted_spans = <<>>
    /\ bucket_i = 1
    /\ citation_db = <<>>
    /\ state_tasks = <<>>
    /\ secondary = [full_citations |-> <<>>, resolved_shorts |-> <<>>]
    /\ raised = "None"
    /\ NoText

\* return of the search with a value
Return(result) ==
    /\ validation' = result
    /\ pc' = "returned"
    /\ UNCHANGED <<attempt, query_i, last_client_error>>

\* One turn of the while True loop of _verify_title_with_semantic_scholar,
\* with what follows the loop when the turn leaves it.
TitleRequest ==
    /\ pc = "requesting"
    /\ response.search = "title"
    /\ requests < MaxRequests
    /\ requests' = requests + 1
    /\ \E resp \in Answers :
         IF resp.transport = "HTTPError"
         THEN Return(Result("error", "semantic scholar http error", "None"))
         ELSE IF resp.status_code = 200
         THEN CASE resp.body = "bad_json" ->
                       Return(Result("error", "semantic scholar json error", "None"))
                [] resp.body = "match" -> Return(Result("verified", "None", "details"))
                [] OTHER -> Return(Result("no_match", "Not found in Semantic Scholar", "None"))
         ELSE IF resp.status_code = 429 /\ attempt < MAX_RETRIES
         THEN /\ attempt' = attempt + 1
              /\ UNCHANGED <<validation, pc, query_i, last_client_error>>
         ELSE IF 400 <= resp.status_code /\ resp.status_code < 500
         THEN /\ last_client_error' = "semantic scholar query rejected"
              /\ validation' = Result("error", "semantic scholar query rejected", "None")
              /\ pc' = "returned"
              /\ UNCHANGED <<attempt, query_i>>
         ELSE IF resp.status_code >= 500
         THEN Return(Result("error", "semantic scholar http error", "None"))
         ELSE \* raise_for_status() returns for a 2xx status: the loop goes on
              UNCHANGED <<validation, pc, attempt, query_i, last_client_error>>
    /\ UNCHANGED <<doc, has_string, all_segments, seg_i, all_resolutions, all_segment_metadata,
                   adjusted_spans, bucket_i, citation_db, state_tasks, secondary, raised,
                   text, string_citation_spans, string_group_counter, response, payment_vars>>

\* `break  # try next query`: the next query, or the end of the search.
NextQuery(client_error) ==
    IF query_i < response.queries
    THEN /\ query_i' = query_i + 1
         /\ attempt' = 0
         /\ requests' = 0
         /\ last_client_error' = client_error
         /\ UNCHANGED <<validation, pc>>
    ELSE /\ validation' = IF client_error # "None"
                          THEN Result("error", client_error, "None")
                          ELSE Result("no_match", "not found in Semantic Scholar", "None")
         /\ pc' = "returned"
         /\ requests' = requests + 1
         /\ last_client_error' = client_error
         /\ UNCHANGED <<attempt, query_i>>

\* One turn of the while True loop of _verify_citation_with_semantic_scholar.
VolumeRequest ==
    /\ pc = "requesting"
    /\ response.search = "volume"
    /\ requests < MaxRequests
    /\ \E r \in Answers :
         IF r.transport = "HTTPError"
         THEN Return(Raise("httpx.HTTPError")) /\ requests' = requests + 1
         ELSE IF r.status_code = 200
         THEN CASE r.body = "bad_json" -> Return(Raise("JSONDecodeError")) /\ requests' = requests + 1
                [] r.body = "match" ->
                       Return(Result("warning", "Unverified details", "details")) /\ requests' = requests + 1
                [] OTHER -> NextQuery(last_client_error)
         ELSE IF r.status_code = 429 /\ attempt < VOLUME_RETRIES
         THEN /\ attempt' = attempt + 1
              /\ requests' = requests + 1
              /\ UNCHANGED <<validation, pc, query_i, last_client_error>>
         ELSE IF 400 <= r.status_code /\ r.status_code < 500
         THEN NextQuery("semantic scholar query rejected")
         ELSE IF r.status_code >= 500
         THEN Return(Raise("httpx.HTTPStatusError")) /\ requests' = requests + 1
         ELSE /\ requests' = requests + 1
              /\ UNCHANGED <<validation, pc, attempt, query_i, last_client_error>>
    /\ UNCHANGED <<doc, has_string, all_segments, seg_i, all_resolutions, all_segment_metadata,
                   adjusted_spans, bucket_i, citation_db, state_tasks, secondary, raised,
                   text, string_citation_spans, string_group_counter, response, payment_vars>>

NextScholar == TitleRequest \/ VolumeRequest

SpecScholar == InitScholar /\ [][NextScholar]_vars

\* C29: a Semantic Scholar search loop sends a bounded number of requests
\* for one query: a 429 is retried at most MAX_RETRIES times in the title
\* search and at most 3 times in the volume/page search, and every other
\* status ends the loop for the query, so that no query gets more requests
\* than its retries and one.
C29_SearchLoopIsBounded ==
    /\ response.search = "title" => requests <= MAX_RETRIES + 1
    /\ response.search = "volume" => requests <= VOLUME_RETRIES + 1

(* ---------------------------------------------------------------------- *)
(* Checkout completion                                                     *)
(* ---------------------------------------------------------------------- *)
\* Requests for one paid checkout session that are under way together, each
\* in a worker with a database session of its own.
MaxHandlers == 2

\* credits of the purchased package
credits == 5

Endpoints == {"stripe_webhook", "verify_payment_session"}

\* A request before its handler has read anything.
Handler(endpoint) ==
    [endpoint |-> endpoint, pc |-> "start", existing_payment |-> "None", user_credits |-> 0,
     already_processed |-> FALSE]

\* The payments row of the session is the pending one that the checkout
\* endpoint has written, or is missing; the user has no credits yet.
InitPayments ==
    /\ payment_status \in {"pending", "None"}
    /\ user_credits = 0
    /\ handlers \in UNION { [1..n -> { Handler(e) : e \in Endpoints }] : n \in 1..MaxHandlers }
    /\ response = "None"
    /\ validation = "None"
    /\ NoScholar
    /\ pc = "serving"
    /\ doc = <<>>
    /\ has_string = FALSE
    /\ all_segments = <<>>
    /\ seg_i = 1
    /\ all_resolutions = <<>>
    /\ all_segment_metadata = <<>>
    /\ adjusted_spans = <<>>
    /\ bucket_i = 1
    /\ citation_db = <<>>
    /\ state_tasks = <<>>
    /\ secondary = [full_citations |-> <<>>, resolved_shorts |-> <<>>]
    /\ raised = "None"
    /\ NoText

NotPayments ==
    <<doc, has_string, pc, all_segments, seg_i, all_resolutions, all_segment_metadata,
      adjusted_spans, bucket_i, citation_db, state_tasks, secondary, raised,
      text, string_citation_spans, string_group_counter, response, validation, scholar_vars>>

\* _process_checkout_completion: existing_payment = select(Payment) of the
\* session; the row is kept in the session's identity map as it was read.
SelectPayment(p) ==
    /\ handlers[p].pc = "start"
    /\ handlers' = [handlers EXCEPT ![p].pc = "intent", ![p].existing_payment = payment_status]
    /\ UNCHANGED <<payment_status, user_credits>>
    /\ UNCHANGED NotPayments

\* After _load_payment_intent has asked Stripe: existing_user =
\* select(UserAccount); the user is kept as it was read.
SelectUser(p) ==
    /\ handlers[p].pc = "intent"
    /\ handlers' = [handlers EXCEPT ![p].pc = "user", ![p].user_credits = user_credits]
    /\ UNCHANGED <<payment_status, user_credits>>
    /\ UNCHANGED NotPayments

\* The test of existing_payment.status, then mark_payment_completed (or the
\* insert of a paid row) with its commit: the row becomes paid and the
\* user's credits become the credits that were read plus the purchased ones.
Complete(p) ==
    /\ handlers[p].pc = "user"
    /\ IF handlers[p].existing_payment = "paid"
       THEN /\ handlers' = [handlers EXCEPT ![p].pc = "done", ![p].already_processed = TRUE]
            /\ UNCHANGED <<payment_status, user_credits>>
       ELSE /\ payment_status' = "paid"
            /\ user_credits' = handlers[p].user_credits + credits
            /\ handlers' = [handlers EXCEPT ![p].pc = "done", ![p].already_processed = FALSE,
                                            ![p].user_credits = handlers[p].user_credits + credits]
    /\ UNCHANGED NotPayments

NextPayments ==
    \/ \E p \in 1..(MaxHandlers + 1) : p \in DOMAIN handlers /\ SelectPayment(p)
    \/ \E p \in 1..(MaxHandlers + 1) : p \in DOMAIN handlers /\ SelectUser(p)
    \/ \E p \in 1..(MaxHandlers + 1) : p \in DOMAIN handlers /\ Complete(p)

SpecPayments == InitPayments /\ [][NextPayments]_vars

\* The requests that have applied the payment.
Applied == { p \in DOMAIN handlers : handlers[p].pc = "done" /\ ~handlers[p].already_processed }

\* C30: however webhook deliveries and verify-session calls for one paid
\* checkout session follow each other or interleave, the credits of the
\* package are added to the user's balance exactly once: one request at most
\* applies the payment, every other one reports it as already processed, and
\* the balance is that of before or that plus the purchased credits.
C30_CreditsAddedExactlyOnce ==
    /\ Cardinality(Applied) <= 1
    /\ user_credits = (IF Applied = {} THEN 0 ELSE credits)

====
